---------------------------- MODULE Spec2Model ----------------------------
(***************************************************************************)
(* Wake-up light (ESP32, 10-bit variant): the alarm / fade engine of        *)
(* loop(), the HTTP command handlers and the LED output.                    *)
(*                                                                          *)
(* The device state is the global struct alarmState; one pass of loop()     *)
(* is server.handleClient() (at most one command handler), then             *)
(* updateManualFade(), updateSunrise(), updateAutoOff(), then delay().      *)
(* millis() is a 32-bit unsigned counter, kept here as two 16-bit limbs     *)
(* <<hi, lo>> so that every difference is taken modulo 2^32.                *)
(* float arithmetic of the fades is reproduced bit-exactly on integers       *)
(* (IEEE-754 binary32, round to nearest even).                              *)
(***************************************************************************)
EXTENDS Integers, Sequences, FiniteSets, TLC

VARIABLES
  alarmState,   \* the global struct alarmState
  preferences,  \* the NVS namespace "alarm": key -> stored value
  ledc,         \* last duty written to the two PWM channels
  millisNow,    \* millis(), 32-bit unsigned, as <<hi, lo>>
  wallClock,    \* local wall-clock time, milliseconds since midnight
  pc,           \* position in loop(): "handleClient" or "update"
  ticks,        \* passes of loop() made so far
  commands,     \* command requests served so far
  response,     \* what server.send() sent in this pass of loop()
  nvsWritable,  \* whether the NVS partition accepts Preferences::put*
  call          \* a function of the firmware applied outside loop(): its
                \* name, arguments and result

vars == <<alarmState, preferences, ledc, millisNow, wallClock, pc, ticks,
          commands, response, nvsWritable, call>>

(***************************** model bounds ********************************)
\* passes of loop() explored
MaxTicks == 6
\* command requests served in one run
MaxCommands == 3



(*************************** program constants *****************************)
SUNRISE_DURATION_MINUTES == 15
SUNRISE_DURATION_MS == SUNRISE_DURATION_MINUTES * 60 * 1000
MANUAL_FADE_MS == 350
DEFAULT_AUTO_OFF_MINUTES == 45
\* gamma exponents, in tenths (2.2f and 1.0f)
DEFAULT_GAMMA == 22
SUNRISE_GAMMA == 10
\* delay(20) at the end of loop()
LOOP_DELAY_MS == 20
\* 2^PWM_RESOLUTION - 1
PWM_MAX == 1023
\* sunrise target of the cool channel
SUNRISE_COOL_TARGET == 409
\* milliseconds in a minute, in a day
MINUTE_MS == 60 * 1000
DAY_MS == 24 * 60 * MINUTE_MS

(************************ 32-bit unsigned arithmetic ***********************)
Limb == 2^16

\* an unsigned long holding n, 0 <= n < 2^31
U32(n) == <<n \div Limb, n % Limb>>

\* a + n modulo 2^32
Add32(a, n) ==
  LET lo == a[2] + (n % Limb)
      hi == a[1] + (n \div Limb) + (lo \div Limb)
  IN  <<hi % Limb, lo % Limb>>

\* variant: a difference that stops at 0 instead of wrapping
Sub32_NoWrap(a, b) ==
  IF a[1] < b[1] \/ (a[1] = b[1] /\ a[2] < b[2])
  THEN <<0, 0>>
  ELSE LET lo == a[2] - b[2]
           borrow == IF lo < 0 THEN 1 ELSE 0
       IN  <<a[1] - b[1] - borrow, lo % Limb>>

\* a - b modulo 2^32 (unsigned long subtraction)
Sub32(a, b) ==
  LET lo == a[2] - b[2]
      borrow == IF lo < 0 THEN 1 ELSE 0
      hi == a[1] - b[1] - borrow
  IN  <<hi % Limb, lo % Limb>>

\* a >= n for an unsigned long a and 0 <= n < 2^31
Ge32(a, n) ==
  \/ a[1] > n \div Limb
  \/ a[1] = n \div Limb /\ a[2] >= n % Limb

\* the value of an unsigned long below 2^31
ToInt(a) == a[1] * Limb + a[2]

(**************************** binary32 arithmetic **************************)
RECURSIVE BitLen(_)
BitLen(n) == IF n = 0 THEN 0 ELSE 1 + BitLen(n \div 2)

RECURSIVE DivLoop(_, _, _, _)
\* long division e / d, one quotient bit per step, until 24 significant bits
DivLoop(r, q, k, d) ==
  IF q >= 2^23 THEN [r |-> r, q |-> q, k |-> k]
  ELSE LET r2 == 2 * r
           bit == IF r2 >= d THEN 1 ELSE 0
       IN  DivLoop(r2 - bit * d, 2 * q + bit, k + 1, d)

\* (float)e / (float)d for 0 < e < d < 2^24: the float m * 2^-k
DivFloat(e, d) ==
  LET x == DivLoop(e, 0, 0, d)
      up == \/ 2 * x.r > d
            \/ 2 * x.r = d /\ x.q % 2 = 1
  IN  [m |-> IF up THEN x.q + 1 ELSE x.q, k |-> x.k]

\* (int)(c * f) for an int 0 <= c <= 1023 and the float f = m * 2^-k >= 0,
\* m <= 2^25: the product is rounded to 24 significant bits (nearest, ties
\* to even), then truncated
MulFloatToInt(c, m, k) ==
  LET a == m \div Limb
      b == m % Limb
      lo == c * b
      pl == lo % Limb
      ph == c * a + lo \div Limb
      nb == IF ph > 0 THEN BitLen(ph) + 16 ELSE BitLen(pl)
      s == nb - 24
      t == 2^s
      low == pl % t
      keep == pl - low
      odd == IF s < 16 THEN (keep \div t) % 2 = 1 ELSE ph % 2 = 1
      up == low > t \div 2 \/ (low = t \div 2 /\ odd)
      plr == IF s > 0 THEN keep + (IF up THEN t ELSE 0) ELSE pl
      phr == ph + plr \div Limb
  IN  IF k >= 16 THEN phr \div 2^(k - 16)
      ELSE phr * 2^(16 - k) + (plr % Limb) \div 2^k

\* (int)(d * f) for a signed int d: the cast truncates toward zero
MulFloatTrunc(d, m, k) ==
  IF d >= 0 THEN MulFloatToInt(d, m, k) ELSE 0 - MulFloatToInt(0 - d, m, k)

constrain(x, lo, hi) == IF x < lo THEN lo ELSE IF x > hi THEN hi ELSE x

\* easeInOutSine((float)elapsed / 350.0f) in units of 2^-25, for
\* elapsed = 0 .. 349 (index elapsed + 1): 0.5f * (1.0f - cosf(x * M_PI))
EasedTable ==
  <<
     0, 676, 2703, 6082, 10813, 16894, 24325, 33106,
     43236, 54714, 67540, 81712, 97229, 114090, 132293, 151838,
     172722, 194943, 218501, 243393, 269617, 297171, 326052, 356259,
     387789, 420640, 454808, 490291, 527087, 565192, 604603, 645317,
     687330, 730641, 775243, 821135, 868313, 916772, 966510, 1017521,
     1069801, 1123348, 1178155, 1234219, 1291536, 1350100, 1409907, 1470952,
     1533231, 1596737, 1661467, 1727414, 1794574, 1862941, 1932510, 2003275,
     2075229, 2148369, 2222687, 2298178, 2374836, 2452653, 2531624, 2611744,
     2693005, 2775400, 2858924, 2943569, 3029328, 3116196, 3204163, 3293224,
     3383372, 3474599, 3566897, 3660261, 3754680, 3850149, 3946659, 4044203,
     4142773, 4242361, 4342959, 4444559, 4547152, 4650731, 4755286, 4860810,
     4967295, 5074730, 5183109, 5292421, 5402659, 5513813, 5625876, 5738837,
     5852685, 5967415, 6083016, 6199478, 6316794, 6434950, 6553940, 6673755,
     6794384, 6915816, 7038043, 7161054, 7284841, 7409393, 7534699, 7660749,
     7787533, 7915043, 8043268, 8172195, 8301814, 8432117, 8563092, 8694730,
     8827020, 8959948, 9093506, 9227684, 9362471, 9497854, 9633826, 9770370,
     9907480, 10045144, 10183350, 10322088, 10461345, 10601111, 10741375, 10882125,
     11023350, 11165037, 11307180, 11449761, 11592772, 11736200, 11880033, 12024262,
     12168876, 12313859, 12459202, 12604891, 12750918, 12897270, 13043936, 13190900,
     13338152, 13485683, 13633479, 13781528, 13929818, 14078338, 14227076, 14376019,
     14525155, 14674473, 14823960, 14973605, 15123395, 15273318, 15423362, 15573516,
     15723766, 15874101, 16024510, 16174978, 16325495, 16476047, 16626627, 16777216,
     16927806, 17078384, 17228938, 17379456, 17529924, 17680330, 17830666, 17980916,
     18131070, 18281114, 18431036, 18580828, 18730474, 18879960, 19029278, 19178410,
     19327356, 19476092, 19624612, 19772904, 19920952, 20068748, 20216280, 20363534,
     20510500, 20657160, 20803512, 20949538, 21095230, 21240574, 21385558, 21530170,
     21674398, 21818234, 21961662, 22104672, 22247252, 22389392, 22531082, 22672306,
     22813056, 22953320, 23093088, 23232346, 23371084, 23509290, 23646952, 23784060,
     23920604, 24056576, 24191960, 24326748, 24460926, 24594486, 24727416, 24859704,
     24991338, 25122312, 25252616, 25382236, 25511164, 25639388, 25766896, 25893684,
     26019736, 26145042, 26269590, 26393376, 26516388, 26638616, 26760048, 26880676,
     27000492, 27119480, 27237640, 27354952, 27471420, 27587016, 27701746, 27815596,
     27928556, 28040618, 28151772, 28262012, 28371324, 28479702, 28587138, 28693622,
     28799146, 28903702, 29007280, 29109874, 29211472, 29312072, 29411660, 29510228,
     29607772, 29704280, 29799750, 29894172, 29987536, 30079834, 30171060, 30261208,
     30350270, 30438236, 30525104, 30610864, 30695508, 30779030, 30861426, 30942688,
     31022808, 31101780, 31179598, 31256256, 31331746, 31406064, 31479202, 31551156,
     31621920, 31691490, 31759856, 31827016, 31892966, 31957696, 32021202, 32083480,
     32144524, 32204332, 32262896, 32320212, 32376276, 32431084, 32484630, 32536912,
     32587922, 32637660, 32686120, 32733296, 32779188, 32823792, 32867100, 32909116,
     32949828, 32989240, 33027344, 33064140, 33099624, 33133792, 33166644, 33198172,
     33228380, 33257260, 33284816, 33311040, 33335932, 33359488, 33381710, 33402594,
     33422140, 33440342, 33457204, 33472720, 33486892, 33499718, 33511196, 33521326,
     33530108, 33537538, 33543620, 33548350, 33551728, 33553756
  >>

\* easeInOutSine of the progress of a manual fade, as the float m * 2^-25
easeInOutSine(elapsed, duration) ==
  IF elapsed <= 0 THEN 0
  ELSE IF elapsed >= duration THEN 2^25
  ELSE EasedTable[elapsed + 1]

\* (int)(powf(v / 1023.0f, 2.2f) * 1023.0f + 0.5f) for v = 1 .. 1022
GammaTable ==
  <<
     0, 0, 0, 0, 0, 0, 0, 0, 0, 0, 0, 0, 0, 0, 0, 0,
     0, 0, 0, 0, 0, 0, 0, 0, 0, 0, 0, 0, 0, 0, 0, 1,
     1, 1, 1, 1, 1, 1, 1, 1, 1, 1, 1, 1, 1, 1, 1, 1,
     1, 1, 1, 1, 2, 2, 2, 2, 2, 2, 2, 2, 2, 2, 2, 2,
     2, 2, 3, 3, 3, 3, 3, 3, 3, 3, 3, 3, 3, 4, 4, 4,
     4, 4, 4, 4, 4, 4, 5, 5, 5, 5, 5, 5, 5, 5, 5, 6,
     6, 6, 6, 6, 6, 6, 7, 7, 7, 7, 7, 7, 7, 8, 8, 8,
     8, 8, 8, 9, 9, 9, 9, 9, 9, 10, 10, 10, 10, 10, 10, 11,
     11, 11, 11, 11, 11, 12, 12, 12, 12, 12, 13, 13, 13, 13, 13, 14,
     14, 14, 14, 15, 15, 15, 15, 15, 16, 16, 16, 16, 17, 17, 17, 17,
     18, 18, 18, 18, 18, 19, 19, 19, 19, 20, 20, 20, 21, 21, 21, 21,
     22, 22, 22, 22, 23, 23, 23, 23, 24, 24, 24, 25, 25, 25, 25, 26,
     26, 26, 27, 27, 27, 28, 28, 28, 29, 29, 29, 29, 30, 30, 30, 31,
     31, 31, 32, 32, 32, 33, 33, 33, 34, 34, 34, 35, 35, 35, 36, 36,
     37, 37, 37, 38, 38, 38, 39, 39, 39, 40, 40, 41, 41, 41, 42, 42,
     43, 43, 43, 44, 44, 44, 45, 45, 46, 46, 46, 47, 47, 48, 48, 49,
     49, 49, 50, 50, 51, 51, 52, 52, 52, 53, 53, 54, 54, 55, 55, 55,
     56, 56, 57, 57, 58, 58, 59, 59, 60, 60, 61, 61, 61, 62, 62, 63,
     63, 64, 64, 65, 65, 66, 66, 67, 67, 68, 68, 69, 69, 70, 70, 71,
     71, 72, 72, 73, 73, 74, 75, 75, 76, 76, 77, 77, 78, 78, 79, 79,
     80, 80, 81, 82, 82, 83, 83, 84, 84, 85, 85, 86, 87, 87, 88, 88,
     89, 89, 90, 91, 91, 92, 92, 93, 94, 94, 95, 95, 96, 97, 97, 98,
     98, 99, 100, 100, 101, 102, 102, 103, 103, 104, 105, 105, 106, 107, 107, 108,
     109, 109, 110, 110, 111, 112, 112, 113, 114, 114, 115, 116, 116, 117, 118, 118,
     119, 120, 121, 121, 122, 123, 123, 124, 125, 125, 126, 127, 127, 128, 129, 130,
     130, 131, 132, 132, 133, 134, 135, 135, 136, 137, 138, 138, 139, 140, 141, 141,
     142, 143, 144, 144, 145, 146, 147, 147, 148, 149, 150, 150, 151, 152, 153, 154,
     154, 155, 156, 157, 157, 158, 159, 160, 161, 161, 162, 163, 164, 165, 166, 166,
     167, 168, 169, 170, 170, 171, 172, 173, 174, 175, 175, 176, 177, 178, 179, 180,
     181, 181, 182, 183, 184, 185, 186, 187, 187, 188, 189, 190, 191, 192, 193, 194,
     194, 195, 196, 197, 198, 199, 200, 201, 202, 203, 203, 204, 205, 206, 207, 208,
     209, 210, 211, 212, 213, 214, 215, 216, 216, 217, 218, 219, 220, 221, 222, 223,
     224, 225, 226, 227, 228, 229, 230, 231, 232, 233, 234, 235, 236, 237, 238, 239,
     240, 241, 242, 243, 244, 245, 246, 247, 248, 249, 250, 251, 252, 253, 254, 255,
     256, 257, 258, 259, 260, 261, 262, 263, 264, 265, 266, 267, 269, 270, 271, 272,
     273, 274, 275, 276, 277, 278, 279, 280, 281, 283, 284, 285, 286, 287, 288, 289,
     290, 291, 292, 294, 295, 296, 297, 298, 299, 300, 301, 303, 304, 305, 306, 307,
     308, 309, 311, 312, 313, 314, 315, 316, 317, 319, 320, 321, 322, 323, 324, 326,
     327, 328, 329, 330, 332, 333, 334, 335, 336, 338, 339, 340, 341, 342, 344, 345,
     346, 347, 348, 350, 351, 352, 353, 355, 356, 357, 358, 360, 361, 362, 363, 365,
     366, 367, 368, 370, 371, 372, 373, 375, 376, 377, 378, 380, 381, 382, 384, 385,
     386, 387, 389, 390, 391, 393, 394, 395, 397, 398, 399, 401, 402, 403, 405, 406,
     407, 409, 410, 411, 413, 414, 415, 417, 418, 419, 421, 422, 423, 425, 426, 427,
     429, 430, 432, 433, 434, 436, 437, 438, 440, 441, 443, 444, 445, 447, 448, 450,
     451, 452, 454, 455, 457, 458, 459, 461, 462, 464, 465, 467, 468, 469, 471, 472,
     474, 475, 477, 478, 480, 481, 483, 484, 485, 487, 488, 490, 491, 493, 494, 496,
     497, 499, 500, 502, 503, 505, 506, 508, 509, 511, 512, 514, 515, 517, 518, 520,
     521, 523, 524, 526, 527, 529, 530, 532, 534, 535, 537, 538, 540, 541, 543, 544,
     546, 548, 549, 551, 552, 554, 555, 557, 559, 560, 562, 563, 565, 567, 568, 570,
     571, 573, 575, 576, 578, 579, 581, 583, 584, 586, 587, 589, 591, 592, 594, 596,
     597, 599, 601, 602, 604, 605, 607, 609, 610, 612, 614, 615, 617, 619, 620, 622,
     624, 625, 627, 629, 631, 632, 634, 636, 637, 639, 641, 642, 644, 646, 648, 649,
     651, 653, 654, 656, 658, 660, 661, 663, 665, 667, 668, 670, 672, 674, 675, 677,
     679, 681, 682, 684, 686, 688, 689, 691, 693, 695, 697, 698, 700, 702, 704, 705,
     707, 709, 711, 713, 714, 716, 718, 720, 722, 724, 725, 727, 729, 731, 733, 735,
     736, 738, 740, 742, 744, 746, 747, 749, 751, 753, 755, 757, 759, 760, 762, 764,
     766, 768, 770, 772, 774, 776, 777, 779, 781, 783, 785, 787, 789, 791, 793, 795,
     796, 798, 800, 802, 804, 806, 808, 810, 812, 814, 816, 818, 820, 822, 824, 826,
     828, 829, 831, 833, 835, 837, 839, 841, 843, 845, 847, 849, 851, 853, 855, 857,
     859, 861, 863, 865, 867, 869, 871, 873, 875, 877, 879, 881, 883, 885, 887, 890,
     892, 894, 896, 898, 900, 902, 904, 906, 908, 910, 912, 914, 916, 918, 920, 922,
     925, 927, 929, 931, 933, 935, 937, 939, 941, 943, 945, 948, 950, 952, 954, 956,
     958, 960, 962, 965, 967, 969, 971, 973, 975, 977, 980, 982, 984, 986, 988, 990,
     992, 995, 997, 999, 1001, 1003, 1005, 1008, 1010, 1012, 1014, 1016, 1019, 1021
  >>

\* variant: without the upper early return
applyGamma_PassesHigh(v, gamma) ==
  IF v <= 0 THEN 0
  ELSE IF v >= PWM_MAX THEN v
  ELSE IF gamma = SUNRISE_GAMMA THEN v
  ELSE GammaTable[v]

\* variant: the top of the range is scaled to 1 << PWM_RESOLUTION
applyGamma_Overflow(v, gamma) ==
  IF v <= 0 THEN 0
  ELSE IF v >= PWM_MAX THEN PWM_MAX + 1
  ELSE IF gamma = SUNRISE_GAMMA THEN v
  ELSE GammaTable[v]

\* applyGamma: with gamma 1.0f the rounding (int)(v / 1023.0f * 1023.0f + 0.5f)
\* returns v for every v in 1 .. 1022
applyGamma(v, gamma) ==
  IF v <= 0 THEN 0
  ELSE IF v >= PWM_MAX THEN PWM_MAX
  ELSE IF gamma = SUNRISE_GAMMA THEN v
  ELSE GammaTable[v]

(******************************* inputs ************************************)
\* durations of one pass of loop(): the nominal delay(20), and passes held up
\* for a minute or for the length of a sunrise
TickDelays == {LOOP_DELAY_MS, MINUTE_MS, SUNRISE_DURATION_MS}

\* request bodies of /set-alarm, /set-brightness, /set-auto-off
AlarmArgs == {<<6, 30>>, <<6, 46>>, <<24, 0>>, <<5, 60>>}
BrightnessArgs == {<<800, 400>>, <<2000, -5>>, <<1024, 0>>, <<0, -1>>}
AutoOffArgs == {<<TRUE, 1>>, <<FALSE, 45>>, <<TRUE, 0>>, <<TRUE, 1441>>}

\* millis() and the wall clock when setup() returns
BootMillis == {U32(1000)}
BootWallClock == {6 * 60 * MINUTE_MS + 30 * MINUTE_MS}

(**************************** persistent store *****************************)
PrefKeys == {"alarm_hour", "alarm_min", "alarm_set", "autooff_enabled", "autooff_mins"}

\* Preferences::getInt / getBool(key, default)
getPref(prefs, key, default) ==
  IF key \in DOMAIN prefs THEN prefs[key] ELSE default

saveAlarmToStorage(s) ==
  [key \in PrefKeys |->
     CASE key = "alarm_hour" -> s.hour
       [] key = "alarm_min" -> s.minute
       [] key = "alarm_set" -> s.isAlarmSet
       [] key = "autooff_enabled" -> s.autoOffEnabled
       [] key = "autooff_mins" -> s.autoOffMinutes]

\* variant: the minute is read under a key saveAlarmToStorage never writes
loadAlarmFromStorage_WrongKey(s, prefs) ==
  [s EXCEPT !.hour = getPref(prefs, "alarm_hour", 6),
            !.minute = getPref(prefs, "alarm_minute", 30),
            !.isAlarmSet = getPref(prefs, "alarm_set", FALSE),
            !.autoOffEnabled = getPref(prefs, "autooff_enabled", TRUE),
            !.autoOffMinutes = getPref(prefs, "autooff_mins", DEFAULT_AUTO_OFF_MINUTES)]

loadAlarmFromStorage(s, prefs) ==
  [s EXCEPT !.hour = getPref(prefs, "alarm_hour", 6),
            !.minute = getPref(prefs, "alarm_min", 30),
            !.isAlarmSet = getPref(prefs, "alarm_set", FALSE),
            !.autoOffEnabled = getPref(prefs, "autooff_enabled", TRUE),
            !.autoOffMinutes = getPref(prefs, "autooff_mins", DEFAULT_AUTO_OFF_MINUTES)]

(****************************** LED control ********************************)
\* w is the pair [alarmState, ledc] a call reads and writes
setBrightness(w, warm, cool) ==
  LET cw == constrain(warm, 0, PWM_MAX)
      cc == constrain(cool, 0, PWM_MAX)
      gamma == IF w.alarmState.isSunriseActive THEN SUNRISE_GAMMA ELSE DEFAULT_GAMMA
  IN  [alarmState |-> [w.alarmState EXCEPT !.currentWarmBrightness = cw,
                                           !.currentCoolBrightness = cc],
       ledc |-> [warm |-> applyGamma(cw, gamma), cool |-> applyGamma(cc, gamma)]]

(****************************** sunrise logic ******************************)
tm_hour(wall) == wall \div (60 * MINUTE_MS)
tm_min(wall) == (wall \div MINUTE_MS) % 60

startSunrise(w, now) ==
  [w EXCEPT !.alarmState.isSunriseActive = TRUE,
            !.alarmState.sunriseStartTime = now]

\* a ramp that starts from the committed brightness instead of (0, 0)
sunriseSample_FromCommitted(s, elapsedTime) ==
  LET progress == IF elapsedTime = 0 THEN [m |-> 0, k |-> 0]
                  ELSE DivFloat(elapsedTime, SUNRISE_DURATION_MS)
  IN  [warm |-> s.currentWarmBrightness
                  + MulFloatTrunc(PWM_MAX - s.currentWarmBrightness, progress.m, progress.k),
       cool |-> s.currentCoolBrightness
                  + MulFloatTrunc(SUNRISE_COOL_TARGET - s.currentCoolBrightness,
                                  progress.m, progress.k)]

\* variant: the two channel targets swapped
sunriseSample_Swapped(s, elapsedTime) ==
  LET progress == IF elapsedTime = 0 THEN [m |-> 0, k |-> 0]
                  ELSE DivFloat(elapsedTime, SUNRISE_DURATION_MS)
  IN  [warm |-> MulFloatToInt(SUNRISE_COOL_TARGET, progress.m, progress.k),
       cool |-> MulFloatToInt(PWM_MAX, progress.m, progress.k)]

\* the linear ramp from (0, 0) to (1023, 409) at elapsedTime < SUNRISE_DURATION_MS
sunriseSample(s, elapsedTime) ==
  LET progress == IF elapsedTime = 0 THEN [m |-> 0, k |-> 0]
                  ELSE DivFloat(elapsedTime, SUNRISE_DURATION_MS)
  IN  [warm |-> MulFloatToInt(PWM_MAX, progress.m, progress.k),
       cool |-> MulFloatToInt(SUNRISE_COOL_TARGET, progress.m, progress.k)]

\* variant: a one-shot alarm, switched off when its sunrise completes
sunriseComplete_OneShot(w, now) ==
  LET w1 == setBrightness(w, PWM_MAX, SUNRISE_COOL_TARGET)
      w2 == [w1 EXCEPT !.alarmState.isSunriseActive = FALSE,
                       !.alarmState.isAlarmSet = FALSE]
  IN  IF w.alarmState.autoOffEnabled
      THEN [w2 EXCEPT !.alarmState.sunriseCompleteTime = now,
                      !.alarmState.autoOffScheduled = TRUE]
      ELSE w2

\* a completion that arms the auto-off without looking at autoOffEnabled
sunriseComplete_AlwaysArms(w, now) ==
  [setBrightness(w, PWM_MAX, SUNRISE_COOL_TARGET)
     EXCEPT !.alarmState.isSunriseActive = FALSE,
            !.alarmState.sunriseCompleteTime = now,
            !.alarmState.autoOffScheduled = TRUE]

\* the branch elapsedTime >= SUNRISE_DURATION_MS
sunriseComplete(w, now) ==
  LET w1 == setBrightness(w, PWM_MAX, SUNRISE_COOL_TARGET)
      w2 == [w1 EXCEPT !.alarmState.isSunriseActive = FALSE]
  IN  IF w.alarmState.autoOffEnabled
      THEN [w2 EXCEPT !.alarmState.sunriseCompleteTime = now,
                      !.alarmState.autoOffScheduled = TRUE]
      ELSE w2

updateSunrise(w, now, wall) ==
  LET s == w.alarmState
      elapsedTime == Sub32(now, s.sunriseStartTime)
  IN  IF ~s.isSunriseActive
      THEN IF ~s.isAlarmSet THEN w
           ELSE IF tm_hour(wall) = s.hour /\ tm_min(wall) = s.minute
                THEN startSunrise(w, now)
                ELSE w
      ELSE IF Ge32(elapsedTime, SUNRISE_DURATION_MS)
      THEN sunriseComplete(w, now)
      ELSE LET b == sunriseSample(s, ToInt(elapsedTime))
           IN  setBrightness(w, b.warm, b.cool)

\* the branch !alarmState.isSunriseActive of updateSunrise() on its own
alarmCheck(w, now, wall) ==
  LET s == w.alarmState
  IN  IF ~s.isAlarmSet THEN w
      ELSE IF tm_hour(wall) = s.hour /\ tm_min(wall) = s.minute
      THEN startSunrise(w, now)
      ELSE w

\* the rest of updateSunrise(), what it does for an active sunrise
sunriseAdvance(w, now) ==
  LET elapsedTime == Sub32(now, w.alarmState.sunriseStartTime)
  IN  IF Ge32(elapsedTime, SUNRISE_DURATION_MS)
      THEN sunriseComplete(w, now)
      ELSE LET b == sunriseSample(w.alarmState, ToInt(elapsedTime))
           IN  setBrightness(w, b.warm, b.cool)

(******************************* manual fade *******************************)
\* variant: a completion that leaves the fade flagged as active
manualFadeComplete_StaysActive(w) ==
  setBrightness(w, w.alarmState.manualTargetWarm, w.alarmState.manualTargetCool)

\* a completion of a manual fade that arms the auto-off as a sunrise does
manualFadeComplete_Arms(w) ==
  [setBrightness(w, w.alarmState.manualTargetWarm, w.alarmState.manualTargetCool)
     EXCEPT !.alarmState.isManualFadeActive = FALSE,
            !.alarmState.autoOffScheduled = w.alarmState.autoOffEnabled]

\* the branch duration == 0 || elapsed >= duration
manualFadeComplete(w) ==
  [setBrightness(w, w.alarmState.manualTargetWarm, w.alarmState.manualTargetCool)
     EXCEPT !.alarmState.isManualFadeActive = FALSE]

\* variant: the interpolated distance without the start added to it
manualFadeSample_NoOffset(s, elapsed) ==
  LET eased == easeInOutSine(elapsed, s.manualFadeDuration)
  IN  [warm |-> MulFloatTrunc(s.manualTargetWarm - s.manualStartWarm, eased, 25),
       cool |-> MulFloatTrunc(s.manualTargetCool - s.manualStartCool, eased, 25)]

\* the eased interpolation between the fade's start and target at elapsed < duration
manualFadeSample(s, elapsed) ==
  LET eased == easeInOutSine(elapsed, s.manualFadeDuration)
  IN  [warm |-> s.manualStartWarm
                  + MulFloatTrunc(s.manualTargetWarm - s.manualStartWarm, eased, 25),
       cool |-> s.manualStartCool
                  + MulFloatTrunc(s.manualTargetCool - s.manualStartCool, eased, 25)]

\* variant: every pass moves the committed brightness half of the way that
\* is left to the target, whatever time has gone by
updateManualFade_StepBased(w, now) ==
  LET s == w.alarmState
      elapsed == Sub32(now, s.manualFadeStartTime)
      duration == s.manualFadeDuration
  IN  IF ~s.isManualFadeActive THEN w
      ELSE IF duration = 0 \/ Ge32(elapsed, duration)
      THEN manualFadeComplete(w)
      ELSE setBrightness(w,
             s.currentWarmBrightness
               + (s.manualTargetWarm - s.currentWarmBrightness) \div 2,
             s.currentCoolBrightness
               + (s.manualTargetCool - s.currentCoolBrightness) \div 2)

updateManualFade(w, now) ==
  LET s == w.alarmState
      elapsed == Sub32(now, s.manualFadeStartTime)
      duration == s.manualFadeDuration
  IN  IF ~s.isManualFadeActive THEN w
      ELSE IF duration = 0 \/ Ge32(elapsed, duration)
      THEN manualFadeComplete(w)
      ELSE LET b == manualFadeSample(s, ToInt(elapsed))
           IN  setBrightness(w, b.warm, b.cool)

\* a start of a manual fade that does not record the committed brightness
startManualFade_NoStart(s, now, targetWarm, targetCool) ==
  [s EXCEPT !.isManualFadeActive = TRUE,
            !.manualFadeStartTime = now,
            !.manualFadeDuration = MANUAL_FADE_MS,
            !.manualTargetWarm = targetWarm,
            !.manualTargetCool = targetCool]

\* the fields every start of a manual fade writes
startManualFade(s, now, targetWarm, targetCool) ==
  [s EXCEPT !.isManualFadeActive = TRUE,
            !.manualFadeStartTime = now,
            !.manualFadeDuration = MANUAL_FADE_MS,
            !.manualStartWarm = s.currentWarmBrightness,
            !.manualStartCool = s.currentCoolBrightness,
            !.manualTargetWarm = targetWarm,
            !.manualTargetCool = targetCool]

(********************************* auto-off ********************************)
\* the dwell an armed auto-off is compared with
autoOffDuration(s) == s.autoOffMinutes * 60 * 1000

\* an auto-off that starts its fade and stays armed
updateAutoOff_StaysArmed(w, now) ==
  LET s == w.alarmState
  IN  IF s.autoOffScheduled /\ Ge32(Sub32(now, s.sunriseCompleteTime), autoOffDuration(s))
      THEN [w EXCEPT !.alarmState = startManualFade(s, now, 0, 0)]
      ELSE w

updateAutoOff(w, now) ==
  LET s == w.alarmState
      elapsed == Sub32(now, s.sunriseCompleteTime)
  IN  IF ~s.autoOffScheduled THEN w
      ELSE IF Ge32(elapsed, autoOffDuration(s))
      THEN [w EXCEPT !.alarmState =
              [startManualFade(s, now, 0, 0) EXCEPT !.autoOffScheduled = FALSE]]
      ELSE w

(******************************* initial state *****************************)
\* the member initialisers of alarmState
StructDefaults ==
  [hour |-> 8, minute |-> 30, isAlarmSet |-> FALSE,
   isSunriseActive |-> FALSE, sunriseStartTime |-> U32(0),
   currentWarmBrightness |-> 0, currentCoolBrightness |-> 0,
   isManualFadeActive |-> FALSE, manualFadeStartTime |-> U32(0),
   manualFadeDuration |-> 0,
   manualStartWarm |-> 0, manualStartCool |-> 0,
   manualTargetWarm |-> 0, manualTargetCool |-> 0,
   autoOffEnabled |-> TRUE, autoOffMinutes |-> DEFAULT_AUTO_OFF_MINUTES,
   sunriseCompleteTime |-> U32(0), autoOffScheduled |-> FALSE]

EmptyStore == [key \in {} |-> 0]

\* no function was applied
NoCall == [f |-> "none"]

\* no request was served in this pass
NoResponse == [code |-> 0, type |-> "", body |-> <<>>]

\* setup(): setupLED() switches the lights off, loadAlarmFromStorage() reads
\* the store
setup(prefs) ==
  LET w == setBrightness([alarmState |-> StructDefaults,
                          ledc |-> [warm |-> 0, cool |-> 0]], 0, 0)
  IN  [w EXCEPT !.alarmState = loadAlarmFromStorage(w.alarmState, prefs)]

Init ==
  /\ preferences = EmptyStore
  /\ alarmState = setup(preferences).alarmState
  /\ ledc = setup(preferences).ledc
  /\ millisNow \in BootMillis
  /\ wallClock \in BootWallClock
  /\ pc = "handleClient"
  /\ ticks = 0
  /\ commands = 0
  /\ response = NoResponse
  /\ nvsWritable = TRUE
  /\ call = NoCall

\* the store after saveAlarmToStorage(): Preferences::putInt and putBool
\* return 0 and write nothing when the partition does not accept the write,
\* and saveAlarmToStorage() does not look at what they return
putPreferences(s) ==
  IF nvsWritable THEN saveAlarmToStorage(s) ELSE preferences

\* the line saveAlarmToStorage() prints after the five writes, written
\* telling whether they went through
saveAlarmSerial(written) == "Alarm saved to persistent storage"

(***************************** command handlers ****************************)
\* every handler is run by server.handleClient(), once per pass of loop()
Request == pc = "handleClient" /\ commands < MaxCommands

\* server.send(code, type, body); a body is the sequence of the pieces the
\* handler concatenates, a JSON body the sequence of its keys and values
send(code, type, body) == [code |-> code, type |-> type, body |-> body]

\* String(int): the decimal digits
String(n) == ToString(n)

\* the literals "true" and "false" of a JSON body
BoolText(b) == IF b THEN "true" ELSE "false"

\* String(minute < 10 ? "0" : "")
ZeroPad(n) == IF n < 10 THEN "0" ELSE ""

\* hour ":" minute, the minute padded to two digits
AlarmTimeText(s) == <<String(s.hour), ":", ZeroPad(s.minute), String(s.minute)>>

Served ==
  /\ pc' = "update"
  /\ commands' = commands + 1
  /\ UNCHANGED <<millisNow, wallClock, ticks, nvsWritable, call>>

\* variant: the alarm time is stored, the alarm is not switched on
handleSetAlarm_KeepsFlag(hour, minute) ==
  /\ Request
  /\ IF hour < 0 \/ hour > 23 \/ minute < 0 \/ minute > 59
     THEN /\ response' = send(400, "text/plain", <<"Invalid time values">>)
          /\ UNCHANGED <<alarmState, preferences>>
     ELSE /\ alarmState' = [alarmState EXCEPT !.hour = hour, !.minute = minute]
          /\ preferences' = putPreferences(alarmState')
          /\ response' = send(200, "text/plain",
                              <<"Alarm set to ", String(hour), ":",
                                ZeroPad(minute), String(minute)>>)
  /\ UNCHANGED ledc
  /\ Served

\* variant: the range check lets hour 24 and minute 60 through
handleSetAlarm_OffByOne(hour, minute) ==
  /\ Request
  /\ IF hour < 0 \/ hour > 24 \/ minute < 0 \/ minute > 60
     THEN /\ response' = send(400, "text/plain", <<"Invalid time values">>)
          /\ UNCHANGED <<alarmState, preferences>>
     ELSE /\ alarmState' = [alarmState EXCEPT !.hour = hour, !.minute = minute,
                                              !.isAlarmSet = TRUE]
          /\ preferences' = putPreferences(alarmState')
          /\ response' = send(200, "text/plain",
                              <<"Alarm set to ", String(hour), ":",
                                ZeroPad(minute), String(minute)>>)
  /\ UNCHANGED ledc
  /\ Served

handleSetAlarm(hour, minute) ==
  /\ Request
  /\ IF hour < 0 \/ hour > 23 \/ minute < 0 \/ minute > 59
     THEN /\ response' = send(400, "text/plain", <<"Invalid time values">>)
          /\ UNCHANGED <<alarmState, preferences>>
     ELSE /\ alarmState' = [alarmState EXCEPT !.hour = hour, !.minute = minute,
                                              !.isAlarmSet = TRUE]
          /\ preferences' = putPreferences(alarmState')
          /\ response' = send(200, "text/plain",
                              <<"Alarm set to ", String(hour), ":",
                                ZeroPad(minute), String(minute)>>)
  /\ UNCHANGED ledc
  /\ Served

handleManualOn ==
  /\ Request
  /\ alarmState' = startManualFade([alarmState EXCEPT !.isSunriseActive = FALSE],
                                   millisNow, PWM_MAX, PWM_MAX)
  /\ response' = send(200, "text/plain", <<"Lights fading on">>)
  /\ UNCHANGED <<preferences, ledc>>
  /\ Served

handleManualOff ==
  /\ Request
  /\ alarmState' = startManualFade([alarmState EXCEPT !.isSunriseActive = FALSE],
                                   millisNow, 0, 0)
  /\ response' = send(200, "text/plain", <<"Lights fading off">>)
  /\ UNCHANGED <<preferences, ledc>>
  /\ Served

\* variant: without the range check
handleSetBrightness_Unchecked(warm, cool) ==
  /\ Request
  /\ alarmState' = startManualFade([alarmState EXCEPT !.isSunriseActive = FALSE],
                                   millisNow, warm, cool)
  /\ response' = send(200, "application/json",
                      <<"warm", String(warm), "cool", String(cool),
                        "fading", "true">>)
  /\ UNCHANGED <<preferences, ledc>>
  /\ Served

\* variant: the running sunrise is cancelled before the range check
handleSetBrightness_CancelsFirst(warm, cool) ==
  /\ Request
  /\ IF warm < 0 \/ warm > PWM_MAX \/ cool < 0 \/ cool > PWM_MAX
     THEN /\ response' = send(400, "text/plain",
                              <<"Invalid brightness values (must be 0-1023)">>)
          /\ alarmState' = [alarmState EXCEPT !.isSunriseActive = FALSE]
     ELSE /\ alarmState' = startManualFade([alarmState EXCEPT !.isSunriseActive = FALSE],
                                           millisNow, warm, cool)
          /\ response' = send(200, "application/json",
                              <<"warm", String(warm), "cool", String(cool),
                                "fading", "true">>)
  /\ UNCHANGED <<preferences, ledc>>
  /\ Served

handleSetBrightness(warm, cool) ==
  /\ Request
  /\ IF warm < 0 \/ warm > PWM_MAX \/ cool < 0 \/ cool > PWM_MAX
     THEN /\ response' = send(400, "text/plain",
                              <<"Invalid brightness values (must be 0-1023)">>)
          /\ UNCHANGED alarmState
     ELSE /\ alarmState' = startManualFade([alarmState EXCEPT !.isSunriseActive = FALSE],
                                           millisNow, warm, cool)
          /\ response' = send(200, "application/json",
                              <<"warm", String(warm), "cool", String(cool),
                                "fading", "true">>)
  /\ UNCHANGED <<preferences, ledc>>
  /\ Served

\* variant: disabling the alarm leaves a running sunrise alone
handleToggleAlarm_KeepsSunrise(enabled) ==
  /\ Request
  /\ alarmState' = [alarmState EXCEPT !.isAlarmSet = enabled]
  /\ preferences' = putPreferences(alarmState')
  /\ response' = send(200, "application/json",
                      <<"isAlarmSet", BoolText(enabled),
                        "alarmTime">> \o AlarmTimeText(alarmState))
  /\ UNCHANGED ledc
  /\ Served

handleToggleAlarm(enabled) ==
  /\ Request
  /\ alarmState' = [alarmState EXCEPT
                      !.isAlarmSet = enabled,
                      !.isSunriseActive = IF ~enabled THEN FALSE ELSE @]
  /\ preferences' = putPreferences(alarmState')
  /\ response' = send(200, "application/json",
                      <<"isAlarmSet", BoolText(enabled),
                        "alarmTime">> \o AlarmTimeText(alarmState))
  /\ UNCHANGED ledc
  /\ Served

\* variant: the range check lets 0 minutes through
handleSetAutoOff_ZeroAllowed(enabled, minutes) ==
  /\ Request
  /\ IF minutes < 0 \/ minutes > 1440
     THEN /\ response' = send(400, "text/plain",
                              <<"Invalid minutes value (must be 1-1440)">>)
          /\ UNCHANGED <<alarmState, preferences>>
     ELSE /\ alarmState' = [alarmState EXCEPT !.autoOffEnabled = enabled,
                                              !.autoOffMinutes = minutes]
          /\ preferences' = putPreferences(alarmState')
          /\ response' = send(200, "application/json",
                              <<"autoOffEnabled", BoolText(enabled),
                                "autoOffMinutes", String(minutes)>>)
  /\ UNCHANGED ledc
  /\ Served

handleSetAutoOff(enabled, minutes) ==
  /\ Request
  /\ IF minutes < 1 \/ minutes > 1440
     THEN /\ response' = send(400, "text/plain",
                              <<"Invalid minutes value (must be 1-1440)">>)
          /\ UNCHANGED <<alarmState, preferences>>
     ELSE /\ alarmState' = [alarmState EXCEPT !.autoOffEnabled = enabled,
                                              !.autoOffMinutes = minutes]
          /\ preferences' = putPreferences(alarmState')
          /\ response' = send(200, "application/json",
                              <<"autoOffEnabled", BoolText(enabled),
                                "autoOffMinutes", String(minutes)>>)
  /\ UNCHANGED ledc
  /\ Served

\* the three GET handlers and the bodies they build
getAlarmResponse(s) ==
  send(200, "application/json",
       <<"hour", String(s.hour), "minute", String(s.minute),
         "isSet", BoolText(s.isAlarmSet)>>)

handleGetAlarm ==
  /\ Request
  /\ response' = getAlarmResponse(alarmState)
  /\ UNCHANGED <<alarmState, preferences, ledc>>
  /\ Served

getAutoOffResponse(s) ==
  send(200, "application/json",
       <<"autoOffEnabled", BoolText(s.autoOffEnabled),
         "autoOffMinutes", String(s.autoOffMinutes)>>)

handleGetAutoOff ==
  /\ Request
  /\ response' = getAutoOffResponse(alarmState)
  /\ UNCHANGED <<alarmState, preferences, ledc>>
  /\ Served

\* strftime "%H:%M:%S" of the local time
TimeText(wall) ==
  LET hh == tm_hour(wall)
      mm == tm_min(wall)
      ss == (wall \div 1000) % 60
  IN  <<ZeroPad(hh), String(hh), ":", ZeroPad(mm), String(mm), ":",
        ZeroPad(ss), String(ss)>>

\* variant: the brightness reported is the target of the manual fade
statusResponse_ReportsTarget(s, wall) ==
  send(200, "application/json",
       <<"currentTime">> \o TimeText(wall) \o
       <<"alarmTime">> \o AlarmTimeText(s) \o
       <<"isAlarmSet", BoolText(s.isAlarmSet),
         "isSunriseActive", BoolText(s.isSunriseActive),
         "warmBrightness", String(s.manualTargetWarm),
         "coolBrightness", String(s.manualTargetCool)>>)

statusResponse(s, wall) ==
  send(200, "application/json",
       <<"currentTime">> \o TimeText(wall) \o
       <<"alarmTime">> \o AlarmTimeText(s) \o
       <<"isAlarmSet", BoolText(s.isAlarmSet),
         "isSunriseActive", BoolText(s.isSunriseActive),
         "warmBrightness", String(s.currentWarmBrightness),
         "coolBrightness", String(s.currentCoolBrightness)>>)

handleStatus ==
  /\ Request
  /\ response' = statusResponse(alarmState, wallClock)
  /\ UNCHANGED <<alarmState, preferences, ledc>>
  /\ Served

(********************************* loop() **********************************)
\* variant: updateSunrise() called before updateManualFade()
updates_SunriseFirst(w, now, wall) ==
  updateAutoOff(updateManualFade(updateSunrise(w, now, wall), now), now)

\* the three updates of one pass, in the order loop() calls them
updates(w, now, wall) ==
  updateAutoOff(updateSunrise(updateManualFade(w, now), now, wall), now)

\* the rest of a pass of loop() after server.handleClient(): the updates, then
\* the delay during which millis() and the wall clock advance together
\* variant: the updates run from a timer, wherever the handler is
loop_Preempting(dt) ==
  /\ ticks < MaxTicks
  /\ LET w == updates([alarmState |-> alarmState, ledc |-> ledc], millisNow, wallClock)
     IN  /\ alarmState' = w.alarmState
         /\ ledc' = w.ledc
  /\ millisNow' = Add32(millisNow, dt)
  /\ wallClock' = (wallClock + dt) % DAY_MS
  /\ ticks' = ticks + 1
  /\ pc' = IF pc \in {"handleClient", "update"} THEN "handleClient" ELSE pc
  /\ response' = IF pc \in {"handleClient", "update"} THEN NoResponse ELSE response
  /\ UNCHANGED <<preferences, commands, nvsWritable, call>>

loop(dt) ==
  /\ pc \in {"handleClient", "update"}
  /\ ticks < MaxTicks
  /\ LET w == updates([alarmState |-> alarmState, ledc |-> ledc], millisNow, wallClock)
     IN  /\ alarmState' = w.alarmState
         /\ ledc' = w.ledc
  /\ millisNow' = Add32(millisNow, dt)
  /\ wallClock' = (wallClock + dt) % DAY_MS
  /\ ticks' = ticks + 1
  /\ pc' = "handleClient"
  /\ response' = NoResponse
  /\ UNCHANGED <<preferences, commands, nvsWritable, call>>

Next ==
  \/ \E a \in AlarmArgs : handleSetAlarm(a[1], a[2])
  \/ handleManualOn
  \/ handleManualOff
  \/ \E b \in BrightnessArgs : handleSetBrightness(b[1], b[2])
  \/ \E enabled \in BOOLEAN : handleToggleAlarm(enabled)
  \/ \E o \in AutoOffArgs : handleSetAutoOff(o[1], o[2])
  \/ \E dt \in TickDelays : loop(dt)

Spec == Init /\ [][Next]_vars

(************************ configuration and restart ************************)
\* a power cycle: setup() runs again on the member initialisers and the
\* store, millis() starts again, the wall clock is the real time
restart ==
  /\ alarmState' = setup(preferences).alarmState
  /\ ledc' = setup(preferences).ledc
  /\ millisNow' \in BootMillis
  /\ pc' = "handleClient"
  /\ response' = NoResponse
  /\ UNCHANGED <<preferences, wallClock, ticks, commands, nvsWritable, call>>

\* arguments of the configuration commands: every hour and every minute of
\* the valid range and one value past each end of it
HourArgs == -1 .. 24
MinuteArgs == -1 .. 60
ConfigAlarmArgs == {<<hour, 30>> : hour \in HourArgs} \cup
                   {<<6, minute>> : minute \in MinuteArgs}
ConfigAutoOffArgs == {<<TRUE, 0>>, <<FALSE, 1>>, <<TRUE, 1440>>, <<FALSE, 1441>>}
ConfigTickDelays == {MINUTE_MS}

NextConfig ==
  \/ \E a \in ConfigAlarmArgs : handleSetAlarm(a[1], a[2])
  \/ \E enabled \in BOOLEAN : handleToggleAlarm(enabled)
  \/ \E o \in ConfigAutoOffArgs : handleSetAutoOff(o[1], o[2])
  \/ handleGetAlarm
  \/ handleGetAutoOff
  \/ handleStatus
  \/ \E dt \in ConfigTickDelays : loop(dt)
  \/ restart

SpecConfig == Init /\ [][NextConfig]_vars

(********************* a handler statement by statement ********************)
\* the positions of loop() inside handleManualOn(), by source line
ManualOnPc ==
  <<"handleManualOn:507", "handleManualOn:508", "handleManualOn:509",
    "handleManualOn:510", "handleManualOn:511", "handleManualOn:512",
    "handleManualOn:513", "handleManualOn:514">>

\* the assignments of handleManualOn() in the order of the source
ManualOnCode(s, now) ==
  <<[field |-> "isSunriseActive", is |-> FALSE],
    [field |-> "isManualFadeActive", is |-> TRUE],
    [field |-> "manualFadeStartTime", is |-> now],
    [field |-> "manualFadeDuration", is |-> MANUAL_FADE_MS],
    [field |-> "manualStartWarm", is |-> s.currentWarmBrightness],
    [field |-> "manualStartCool", is |-> s.currentCoolBrightness],
    [field |-> "manualTargetWarm", is |-> PWM_MAX],
    [field |-> "manualTargetCool", is |-> PWM_MAX]>>

\* server.handleClient() calls handleManualOn()
manualOnEnter ==
  /\ Request
  /\ pc' = ManualOnPc[1]
  /\ UNCHANGED <<alarmState, preferences, ledc, millisNow, wallClock, ticks,
                 commands, response, nvsWritable, call>>

\* one assignment of handleManualOn()
manualOnStatement ==
  /\ \E i \in 1..Len(ManualOnPc) :
       /\ pc = ManualOnPc[i]
       /\ LET a == ManualOnCode(alarmState, millisNow)[i]
          IN  alarmState' = [alarmState EXCEPT ![a.field] = a.is]
       /\ pc' = IF i < Len(ManualOnPc) THEN ManualOnPc[i + 1] ELSE "handleManualOn:516"
  /\ UNCHANGED <<preferences, ledc, millisNow, wallClock, ticks,
                 commands, response, nvsWritable, call>>

\* server.send() and the return to loop()
manualOnSend ==
  /\ pc = "handleManualOn:516"
  /\ response' = send(200, "text/plain", <<"Lights fading on">>)
  /\ UNCHANGED <<alarmState, preferences, ledc>>
  /\ Served

StepTickDelays == {LOOP_DELAY_MS, MINUTE_MS}

NextSteps ==
  \/ manualOnEnter
  \/ manualOnStatement
  \/ manualOnSend
  \/ handleManualOff
  \/ handleStatus
  \/ \E a \in AlarmArgs : handleSetAlarm(a[1], a[2])
  \/ \E dt \in StepTickDelays : loop(dt)

SpecSteps == Init /\ [][NextSteps]_vars

(************************** failing store writes ***************************)
\* the NVS partition stops or starts accepting writes (full or worn flash,
\* a failed Preferences::begin)
nvsFault ==
  /\ nvsWritable' = ~nvsWritable
  /\ UNCHANGED <<alarmState, preferences, ledc, millisNow, wallClock, pc, ticks,
                 commands, response, call>>

NextStorage ==
  \/ nvsFault
  \/ \E a \in AlarmArgs : handleSetAlarm(a[1], a[2])
  \/ \E enabled \in BOOLEAN : handleToggleAlarm(enabled)
  \/ \E o \in AutoOffArgs : handleSetAutoOff(o[1], o[2])
  \/ \E dt \in ConfigTickDelays : loop(dt)
  \/ restart

SpecStorage == Init /\ [][NextStorage]_vars

(********************** millis() about to wrap around **********************)
\* the unsigned long 2^32 - n, for n that is not a multiple of 2^16
BeforeWrap(n) == <<Limb - 1 - (n \div Limb), Limb - (n % Limb)>>

\* millis() after 49.7 days of running: 30 ms before it wraps to 0, and a
\* sunrise and half a minute before it does
WrapMillis == {BeforeWrap(30), BeforeWrap(SUNRISE_DURATION_MS + 30000)}

\* the device has run idle since setup() and millis() is about to wrap
InitWrap ==
  /\ preferences = EmptyStore
  /\ alarmState = setup(preferences).alarmState
  /\ ledc = setup(preferences).ledc
  /\ millisNow \in WrapMillis
  /\ wallClock \in BootWallClock
  /\ pc = "handleClient"
  /\ ticks = 0
  /\ commands = 0
  /\ response = NoResponse
  /\ nvsWritable = TRUE
  /\ call = NoCall

\* the longest dwell handleSetAutoOff accepts, next to the default of 45 min
WrapAutoOffArgs == {<<TRUE, 1440>>}

\* passes of loop() as in Spec, and one held up for a day
WrapTickDelays == TickDelays \cup {DAY_MS}

NextWrap ==
  \/ handleSetAlarm(6, 30)
  \/ handleManualOn
  \/ \E o \in WrapAutoOffArgs : handleSetAutoOff(o[1], o[2])
  \/ \E dt \in WrapTickDelays : loop(dt)

SpecWrap == InitWrap /\ [][NextWrap]_vars

(********************** every command, coarse passes ***********************)
\* passes of loop() held up for a minute or for the length of a sunrise:
\* enough for the alarm to trigger, a sunrise to advance and complete, the
\* auto-off to fire and a fade to be sampled and completed
FrameTickDelays == {MINUTE_MS, SUNRISE_DURATION_MS}

NextFrame ==
  \/ \E a \in AlarmArgs : handleSetAlarm(a[1], a[2])
  \/ handleManualOn
  \/ handleManualOff
  \/ \E b \in BrightnessArgs : handleSetBrightness(b[1], b[2])
  \/ \E enabled \in BOOLEAN : handleToggleAlarm(enabled)
  \/ \E o \in AutoOffArgs : handleSetAutoOff(o[1], o[2])
  \/ \E dt \in FrameTickDelays : loop(dt)

SpecFrame == Init /\ [][NextFrame]_vars

(********************* every command, and power cycles *********************)
\* the commands and passes of SpecFrame, and restarts on the store they wrote
NextRange ==
  \/ NextFrame
  \/ restart

SpecRange == Init /\ [][NextRange]_vars

(**************************** loop() runs forever **************************)
\* passes of loop() a fade takes at the nominal delay(20): samples at
\* 0, 20 .. 340 ms and the completing pass at 360 ms
FadePasses == MANUAL_FADE_MS \div LOOP_DELAY_MS + 2

\* passes of loop() followed in this specification
MaxPasses == 21

\* passes at the nominal delay(20), the slowest way through a fade
FairTickDelays == {LOOP_DELAY_MS}

\* one pass of loop(), as loop(dt), counted up to MaxPasses
loopFair(dt) ==
  /\ pc \in {"handleClient", "update"}
  /\ ticks < MaxPasses
  /\ LET w == updates([alarmState |-> alarmState, ledc |-> ledc], millisNow, wallClock)
     IN  /\ alarmState' = w.alarmState
         /\ ledc' = w.ledc
  /\ millisNow' = Add32(millisNow, dt)
  /\ wallClock' = (wallClock + dt) % DAY_MS
  /\ ticks' = ticks + 1
  /\ pc' = "handleClient"
  /\ response' = NoResponse
  /\ UNCHANGED <<preferences, commands, nvsWritable, call>>

\* loop() is due: what enables a pass, none of its arithmetic
loopDue ==
  /\ pc \in {"handleClient", "update"}
  /\ ticks < MaxPasses
  /\ ticks' = ticks + 1
  /\ UNCHANGED <<alarmState, preferences, ledc, millisNow, wallClock, pc,
                 commands, response, nvsWritable, call>>

\* requests served in this specification
MaxFairCommands == 2

NextFair ==
  \/ commands < MaxFairCommands /\ handleSetAlarm(6, 30)
  \/ commands < MaxFairCommands /\ handleManualOn
  \/ commands < MaxFairCommands /\ handleManualOff
  \/ commands < MaxFairCommands /\ handleSetBrightness(800, 400)
  \/ \E dt \in FairTickDelays : loopFair(dt)

\* loop() is called again as long as the device runs. A pass is enabled
\* exactly when loopDue is, and no step of NextFair is a loopDue step (a pass
\* moves millisNow), so this is weak fairness of the pass
SpecFair ==
  /\ Init
  /\ [][NextFair]_vars
  /\ WF_vars(loopDue \/ \E dt \in FairTickDelays : loopFair(dt))

(********************* the 8-bit variant, src/src/main.cpp ******************)
\* The simple firmware has no fades, no gamma and no auto-off; its state is
\* held in the same variables: alarmState is its struct, ledc the two duties
\* of its 8-bit channels. Its names carry an 8 where the 10-bit firmware has
\* a function of the same name.
PWM_MAX8 == 255

\* delay(100) at the end of loop()
LOOP_DELAY_MS8 == 100

\* passes of loop() followed in this specification
MaxTicks8 == 5

StructDefaults8 ==
  [hour |-> 6, minute |-> 30, isAlarmSet |-> FALSE,
   isSunriseActive |-> FALSE, sunriseStartTime |-> U32(0),
   currentWarmBrightness |-> 0, currentCoolBrightness |-> 0]

PrefKeys8 == {"alarm_hour", "alarm_min", "alarm_set"}

saveAlarmToStorage8(s) ==
  [key \in PrefKeys8 |->
     CASE key = "alarm_hour" -> s.hour
       [] key = "alarm_min" -> s.minute
       [] key = "alarm_set" -> s.isAlarmSet]

loadAlarmFromStorage8(s, prefs) ==
  [s EXCEPT !.hour = getPref(prefs, "alarm_hour", 6),
            !.minute = getPref(prefs, "alarm_min", 30),
            !.isAlarmSet = getPref(prefs, "alarm_set", FALSE)]

\* the clamped values go to the struct and, as they are, to ledcWrite
setBrightness8(w, warm, cool) ==
  LET cw == constrain(warm, 0, PWM_MAX8)
      cc == constrain(cool, 0, PWM_MAX8)
  IN  [alarmState |-> [w.alarmState EXCEPT !.currentWarmBrightness = cw,
                                           !.currentCoolBrightness = cc],
       ledc |-> [warm |-> cw, cool |-> cc]]

startSunrise8(w, now) ==
  [w EXCEPT !.alarmState.isSunriseActive = TRUE,
            !.alarmState.sunriseStartTime = now]

\* (int)(255 * (1.0 - progress)) for the float progress = m * 2^-k, 0 < progress
\* < 1 (k >= 24): 1.0 is a double, and the difference and the product are
\* exact in double, so the cast yields 255 - ceil(255 * m / 2^k)
CoolLevel8(m, k) ==
  LET lo == PWM_MAX8 * (m % Limb)
      ph == PWM_MAX8 * (m \div Limb) + lo \div Limb
      pl == lo % Limb
      t == 2^(k - 16)
      rest == ph % t # 0 \/ pl # 0
  IN  PWM_MAX8 - (ph \div t + (IF rest THEN 1 ELSE 0))

\* the two levels of updateSunrise() at elapsedTime < SUNRISE_DURATION_MS
sunriseSample8(elapsedTime) ==
  IF elapsedTime = 0
  THEN [warm |-> 0, cool |-> PWM_MAX8]
  ELSE LET progress == DivFloat(elapsedTime, SUNRISE_DURATION_MS)
       IN  [warm |-> MulFloatToInt(PWM_MAX8, progress.m, progress.k),
            cool |-> CoolLevel8(progress.m, progress.k)]

updateSunrise8(w, now, wall) ==
  IF ~w.alarmState.isSunriseActive
  THEN IF /\ w.alarmState.isAlarmSet
          /\ tm_hour(wall) = w.alarmState.hour
          /\ tm_min(wall) = w.alarmState.minute
       THEN startSunrise8(w, now)
       ELSE w
  ELSE LET elapsedTime == Sub32(now, w.alarmState.sunriseStartTime)
       IN  IF Ge32(elapsedTime, SUNRISE_DURATION_MS)
           THEN [setBrightness8(w, PWM_MAX8, 0)
                   EXCEPT !.alarmState.isSunriseActive = FALSE]
           ELSE LET b == sunriseSample8(ToInt(elapsedTime))
                IN  setBrightness8(w, b.warm, b.cool)

\* setup(): setupLED() switches the lights off, loadAlarmFromStorage() reads
\* the store
setup8(prefs) ==
  LET w == setBrightness8([alarmState |-> StructDefaults8,
                           ledc |-> [warm |-> 0, cool |-> 0]], 0, 0)
  IN  [w EXCEPT !.alarmState = loadAlarmFromStorage8(w.alarmState, prefs)]

Init8 ==
  /\ preferences = EmptyStore
  /\ alarmState = setup8(preferences).alarmState
  /\ ledc = setup8(preferences).ledc
  /\ millisNow \in BootMillis
  /\ wallClock \in BootWallClock
  /\ pc = "handleClient"
  /\ ticks = 0
  /\ commands = 0
  /\ response = NoResponse
  /\ nvsWritable = TRUE
  /\ call = NoCall

\* what the request carries: no body, a body without "hour": or "minute":,
\* or a body with both
BodyForms8 == {"none", "malformed", "json"}

\* hour and minute are what atoi reads behind the two keys
handleSetAlarm8(form, hour, minute) ==
  /\ Request
  /\ IF form = "none"
     THEN /\ response' = send(400, "text/plain", <<"No body">>)
          /\ UNCHANGED <<alarmState, preferences>>
     ELSE IF form = "malformed"
     THEN /\ response' = send(400, "text/plain", <<"Invalid JSON format">>)
          /\ UNCHANGED <<alarmState, preferences>>
     ELSE IF hour < 0 \/ hour > 23 \/ minute < 0 \/ minute > 59
     THEN /\ response' = send(400, "text/plain", <<"Invalid time values">>)
          /\ UNCHANGED <<alarmState, preferences>>
     ELSE /\ alarmState' = [alarmState EXCEPT !.hour = hour, !.minute = minute,
                                              !.isAlarmSet = TRUE]
          /\ preferences' = IF nvsWritable THEN saveAlarmToStorage8(alarmState')
                                           ELSE preferences
          /\ response' = send(200, "text/plain",
                              <<"Alarm set to ", String(hour), ":",
                                ZeroPad(minute), String(minute)>>)
  /\ UNCHANGED ledc
  /\ Served

handleManualOn8 ==
  /\ Request
  /\ LET w == setBrightness8([alarmState |-> [alarmState EXCEPT !.isSunriseActive = FALSE],
                              ledc |-> ledc], PWM_MAX8, PWM_MAX8)
     IN  /\ alarmState' = w.alarmState
         /\ ledc' = w.ledc
  /\ response' = send(200, "text/plain", <<"Lights turned on">>)
  /\ UNCHANGED preferences
  /\ Served

handleManualOff8 ==
  /\ Request
  /\ LET w == setBrightness8([alarmState |-> [alarmState EXCEPT !.isSunriseActive = FALSE],
                              ledc |-> ledc], 0, 0)
     IN  /\ alarmState' = w.alarmState
         /\ ledc' = w.ledc
  /\ response' = send(200, "text/plain", <<"Lights turned off">>)
  /\ UNCHANGED preferences
  /\ Served

\* one pass of loop() after server.handleClient(): updateSunrise(), then the
\* delay; dt is the time the pass took
loop8(dt) ==
  /\ pc \in {"handleClient", "update"}
  /\ ticks < MaxTicks8
  /\ LET w == updateSunrise8([alarmState |-> alarmState, ledc |-> ledc],
                             millisNow, wallClock)
     IN  /\ alarmState' = w.alarmState
         /\ ledc' = w.ledc
  /\ millisNow' = Add32(millisNow, dt)
  /\ wallClock' = (wallClock + dt) % DAY_MS
  /\ ticks' = ticks + 1
  /\ pc' = "handleClient"
  /\ response' = NoResponse
  /\ UNCHANGED <<preferences, commands, nvsWritable, call>>

\* alarm times: the boot minute, an hour and a minute past the range
AlarmArgs8 == {<<6, 30>>, <<24, 30>>, <<6, 60>>}

\* a pass at the nominal delay, a pass held up for a minute, for a third of
\* a sunrise and for a whole one
TickDelays8 == {LOOP_DELAY_MS8, MINUTE_MS, SUNRISE_DURATION_MS \div 3, SUNRISE_DURATION_MS}

\* get-alarm and status read the state and send it; they are left out
Next8 ==
  \/ \E form \in BodyForms8 : \E a \in AlarmArgs8 : handleSetAlarm8(form, a[1], a[2])
  \/ handleManualOn8
  \/ handleManualOff8
  \/ \E dt \in TickDelays8 : loop8(dt)

Spec8 == Init8 /\ [][Next8]_vars

(**************************** the curves on their own **********************)
\* arguments of applyGamma: every duty value and values past both ends
GammaInputs == -2 .. PWM_MAX + 2

\* exponents in tenths: the two the program passes, and smaller and larger ones
GammaExponents == {1, 5, SUNRISE_GAMMA, DEFAULT_GAMMA, 30}

\* one call of applyGamma; between the two early returns the model computes
\* powf for the exponents the program passes
applyGammaCall(v, gamma) ==
  /\ call.f = "none"
  /\ v \in 1 .. PWM_MAX - 1 => gamma \in {SUNRISE_GAMMA, DEFAULT_GAMMA}
  /\ call' = [f |-> "applyGamma", v |-> v, gamma |-> gamma,
              result |-> applyGamma(v, gamma)]
  /\ UNCHANGED <<alarmState, preferences, ledc, millisNow, wallClock, pc, ticks,
                 commands, response, nvsWritable>>

\* elapsed times at which (int)(1023.0f * progress) or (int)(409.0f * progress)
\* is taken of a float product that was rounded up to a whole number
RampRoundedUp ==
  {157478, 228739, 314956, 457478, 472434, 528739, 588563, 614956, 629912,
   644868, 686217, 701173, 757478, 828739, 843695, 858651,
   499511, 589731, 598533, 688753, 697555, 796577}

\* elapsed times of a sunrise: a grid over the ramp and past its end, both
\* ends, the middle, and the neighbourhood of the rounded products
SunriseElapsedArgs ==
  {n * 5000 : n \in 0 .. 192}
    \cup {e + d : e \in RampRoundedUp, d \in {-1, 0, 1}}
    \cup {1, SUNRISE_DURATION_MS \div 2 - 1, SUNRISE_DURATION_MS - 1,
          SUNRISE_DURATION_MS + 1}

\* one pass of updateSunrise at elapsedTime after startSunrise; the passes of
\* one sunrise come at growing elapsed times
updateSunriseCall(elapsedTime) ==
  /\ call.f \in {"none", "updateSunrise"}
  /\ call.f = "updateSunrise" => elapsedTime > call.elapsedTime
  /\ LET w0 == startSunrise([alarmState |-> [alarmState EXCEPT !.isAlarmSet = TRUE],
                             ledc |-> ledc], millisNow)
         w1 == updateSunrise(w0, Add32(millisNow, elapsedTime),
                             (wallClock + elapsedTime) % DAY_MS)
     IN  call' = [f |-> "updateSunrise", elapsedTime |-> elapsedTime,
                  warm |-> w1.alarmState.currentWarmBrightness,
                  cool |-> w1.alarmState.currentCoolBrightness,
                  isSunriseActive |-> w1.alarmState.isSunriseActive]
  /\ UNCHANGED <<alarmState, preferences, ledc, millisNow, wallClock, pc, ticks,
                 commands, response, nvsWritable>>

\* committed brightness at the start of a fade and the fade's target: the
\* fades of manualOn, manualOff, the auto-off and setBrightness
FadeArgs ==
  {<<<<0, 0>>, <<PWM_MAX, PWM_MAX>>>>,
   <<<<PWM_MAX, PWM_MAX>>, <<0, 0>>>>,
   <<<<PWM_MAX, SUNRISE_COOL_TARGET>>, <<0, 0>>>>,
   <<<<68, 27>>, <<PWM_MAX, PWM_MAX>>>>,
   <<<<800, 400>>, <<0, PWM_MAX>>>>,
   <<<<1, 0>>, <<0, 1>>>>,
   <<<<800, 400>>, <<800, 400>>>>}

FadeElapsedArgs == 0 .. MANUAL_FADE_MS + 1

\* one pass of updateManualFade at elapsed after the fade p was started; the
\* passes of one fade come at growing elapsed times
updateManualFadeCall(p, elapsed) ==
  /\ call.f \in {"none", "updateManualFade"}
  /\ call.f = "updateManualFade" => p = call.p /\ elapsed > call.elapsed
  /\ LET s0 == [alarmState EXCEPT !.currentWarmBrightness = p[1][1],
                                   !.currentCoolBrightness = p[1][2]]
         w0 == [alarmState |-> startManualFade(s0, millisNow, p[2][1], p[2][2]),
                ledc |-> ledc]
         w1 == updateManualFade(w0, Add32(millisNow, elapsed))
     IN  call' = [f |-> "updateManualFade", p |-> p, elapsed |-> elapsed,
                  warm |-> w1.alarmState.currentWarmBrightness,
                  cool |-> w1.alarmState.currentCoolBrightness,
                  isManualFadeActive |-> w1.alarmState.isManualFadeActive]
  /\ UNCHANGED <<alarmState, preferences, ledc, millisNow, wallClock, pc, ticks,
                 commands, response, nvsWritable>>

NextCurves ==
  \/ \E v \in GammaInputs, gamma \in GammaExponents : applyGammaCall(v, gamma)
  \/ \E elapsedTime \in SunriseElapsedArgs : updateSunriseCall(elapsedTime)
  \/ \E p \in FadeArgs, elapsed \in FadeElapsedArgs : updateManualFadeCall(p, elapsed)

SpecCurves == Init /\ [][NextCurves]_vars

(***************************************************************************)
(*                              PROPERTIES                                  *)
(***************************************************************************)
\* a step that is one pass of loop()
TickStep == ticks' = ticks + 1

SunriseElapsed == Sub32(millisNow, alarmState.sunriseStartTime)
ManualElapsed == Sub32(millisNow, alarmState.manualFadeStartTime)
AutoOffElapsed == Sub32(millisNow, alarmState.sunriseCompleteTime)

Committed(s) == <<s.currentWarmBrightness, s.currentCoolBrightness>>
ManualStart(s) == <<s.manualStartWarm, s.manualStartCool>>
ManualTarget(s) == <<s.manualTargetWarm, s.manualTargetCool>>

\* the sunrise of the pre-state reaches its 15 minutes in this pass
SunriseDue == alarmState.isSunriseActive /\ Ge32(SunriseElapsed, 900000)
\* the manual fade of the pre-state reaches its duration in this pass
ManualDue ==
  alarmState.isManualFadeActive /\ Ge32(ManualElapsed, alarmState.manualFadeDuration)

\* C1: at most one trajectory is active: isSunriseActive and
\* isManualFadeActive are never both true.
C1_AtMostOneTrajectory ==
  ~(alarmState.isSunriseActive /\ alarmState.isManualFadeActive)

\* a command that starts a new trajectory
ManualCommand ==
  \/ handleManualOn
  \/ handleManualOff
  \/ \E b \in BrightnessArgs :
       /\ b[1] \in 0..1023 /\ b[2] \in 0..1023
       /\ handleSetBrightness(b[1], b[2])

\* C2: immediately after manualOn, manualOff or a valid setBrightness,
\* autoOffScheduled is false.
C2_ManualCommandCancelsAutoOff ==
  [][ManualCommand => ~alarmState'.autoOffScheduled]_vars

\* the command of this step has replaced a running sunrise by a manual fade
\* from the committed brightness to <<targetWarm, targetCool>>
SunriseReplacedBy(targetWarm, targetCool) ==
  /\ ~alarmState'.isSunriseActive
  /\ alarmState'.isManualFadeActive
  /\ ManualStart(alarmState') = Committed(alarmState)
  /\ ManualTarget(alarmState') = <<targetWarm, targetCool>>
  /\ alarmState'.manualFadeDuration = 350
  /\ alarmState'.manualFadeStartTime = millisNow
  /\ Committed(alarmState') = Committed(alarmState)

C4_TickCommitsTarget ==
  [][TickStep =>
       /\ ManualDue => /\ Committed(alarmState') = ManualTarget(alarmState)
                       /\ ~alarmState'.isManualFadeActive
       /\ SunriseDue => /\ Committed(alarmState') = <<1023, 409>>
                        /\ ~alarmState'.isSunriseActive]_vars

\* the pass of this step commits the first sample of a sunrise
FirstSunriseSample ==
  /\ TickStep
  /\ alarmState.isSunriseActive
  /\ ~alarmState.isManualFadeActive
  /\ ~Ge32(SunriseElapsed, 21)

\* C5 as stated: the first sample of a sunrise is approximately the
\* brightness that was committed before the alarm fired.
C5_SunriseStartsFromCommitted ==
  [][FirstSunriseSample =>
       /\ alarmState'.currentWarmBrightness - alarmState.currentWarmBrightness \in -1..1
       /\ alarmState'.currentCoolBrightness - alarmState.currentCoolBrightness \in -1..1]_vars

\* C5 amended: a sunrise is the ramp from (0,0) to (1023,409) whatever was
\* committed before: a sample at elapsed e < 15 min is within one step of
\* (1023 e / 900000, 409 e / 900000), and the first sample is (0,0).
C5_SunriseStartsFromZero ==
  [][(TickStep /\ alarmState.isSunriseActive /\ ~SunriseDue) =>
       LET e == ToInt(SunriseElapsed)
       IN  /\ alarmState'.currentWarmBrightness - (1023 * e) \div 900000 \in 0..1
           /\ alarmState'.currentCoolBrightness - (409 * e) \div 900000 \in 0..1
           /\ e <= 20 => Committed(alarmState') = <<0, 0>>]_vars

\* C5 witness: a sunrise that started after a manual fade had brought the
\* lights to (1023,1023) has committed its first sample, (0,0).
C5_Witness ==
  /\ alarmState.isSunriseActive /\ ~alarmState.isManualFadeActive
  /\ ManualTarget(alarmState) = <<1023, 1023>>
  /\ Ge32(Sub32(alarmState.sunriseStartTime, alarmState.manualFadeStartTime), 350)
  /\ alarmState.manualFadeDuration = 350
  /\ commands = 2
  /\ Committed(alarmState) = <<0, 0>>
  /\ Ge32(SunriseElapsed, 20)

\* the alarm check of this pass finds an enabled alarm at its time and no
\* trajectory of either kind
StartCondition ==
  /\ ~alarmState.isSunriseActive
  /\ ~(alarmState.isManualFadeActive /\ ~ManualDue)
  /\ alarmState.isAlarmSet
  /\ wallClock \div 3600000 = alarmState.hour
  /\ (wallClock \div 60000) % 60 = alarmState.minute

\* C6: a pass of loop() starts a sunrise if and only if no trajectory of
\* either kind is active, the alarm is enabled and the wall clock is at the
\* alarm's hour and minute.
C6_SunriseStartsIff ==
  [][TickStep =>
       ((~alarmState.isSunriseActive /\ alarmState'.isSunriseActive) <=> StartCondition)]_vars

\* C7: the pass of loop() at or after 15 minutes of a sunrise commits
\* (1023,409), clears isSunriseActive, and arms the auto-off with
\* sunriseCompleteTime = now exactly when autoOffEnabled is true.
C7_SunriseCompletion ==
  [][(TickStep /\ SunriseDue) =>
       /\ Committed(alarmState') = <<1023, 409>>
       /\ ~alarmState'.isSunriseActive
       /\ IF alarmState.autoOffEnabled
          THEN /\ alarmState'.autoOffScheduled
               /\ alarmState'.sunriseCompleteTime = millisNow
          ELSE /\ alarmState'.autoOffScheduled => alarmState.autoOffScheduled
               /\ alarmState'.sunriseCompleteTime = alarmState.sunriseCompleteTime]_vars

\* C7 witness: a sunrise has run its 15 minutes and left (1023,409) with the
\* auto-off armed.
C7_Witness ==
  /\ ~alarmState.isSunriseActive /\ alarmState.autoOffScheduled
  /\ alarmState.autoOffEnabled
  /\ Committed(alarmState) = <<1023, 409>>
  /\ Ge32(Sub32(alarmState.sunriseCompleteTime, alarmState.sunriseStartTime), 900000)

\* no field of the manual fade is written
NoFadeStarted ==
  /\ alarmState'.manualFadeStartTime = alarmState.manualFadeStartTime
  /\ ManualStart(alarmState') = ManualStart(alarmState)
  /\ ManualTarget(alarmState') = ManualTarget(alarmState)

C9_ArmedOnlyBySunriseCompletion ==
  [][(~alarmState.autoOffScheduled /\ alarmState'.autoOffScheduled) =>
       /\ TickStep
       /\ SunriseDue
       /\ alarmState.autoOffEnabled
       /\ alarmState'.sunriseCompleteTime = millisNow]_vars

\* C9 witness: the auto-off is armed in a run in which a manual fade has
\* also run to its end.
C9_Witness ==
  /\ alarmState.autoOffScheduled
  /\ ~alarmState.isManualFadeActive /\ alarmState.manualFadeDuration = 350
  /\ Committed(alarmState) = <<1023, 409>>
  /\ pc = "handleClient"

\* C10: a setAutoOff served while the auto-off is armed leaves the arming
\* and the elapsed time at which it fires as they were.
C10_SetAutoOffKeepsArmedTimer ==
  [][(alarmState.autoOffScheduled
        /\ \E o \in AutoOffArgs : handleSetAutoOff(o[1], o[2])) =>
       /\ alarmState'.autoOffScheduled
       /\ alarmState'.sunriseCompleteTime = alarmState.sunriseCompleteTime
       /\ autoOffDuration(alarmState') = autoOffDuration(alarmState)]_vars


\* the five values saveAlarmToStorage() writes
Config(s) == <<s.hour, s.minute, s.isAlarmSet, s.autoOffEnabled, s.autoOffMinutes>>

ValidTime(a) == a[1] \in 0..23 /\ a[2] \in 0..59
InvalidTimeResponse == send(400, "text/plain", <<"Invalid time values">>)

\* this step is a successful setAlarm(a[1], a[2]); the first two conjuncts
\* follow from the third and only select the argument cheaply
SetAlarmStep(a) ==
  /\ alarmState'.hour = a[1]
  /\ alarmState'.minute = a[2]
  /\ ValidTime(a)
  /\ handleSetAlarm(a[1], a[2])

\* C11: for every hour in 0..23 and minute in 0..59, after setAlarm(hour,
\* minute) the body getAlarm builds holds that hour, that minute and
\* isSet true, whatever the alarm time and the enabled flag were before.
C11_SetAlarmThenGetAlarm ==
  [][\A a \in ConfigAlarmArgs :
       SetAlarmStep(a) =>
         getAlarmResponse(alarmState') =
           send(200, "application/json",
                <<"hour", String(a[1]), "minute", String(a[2]), "isSet", "true">>)]_vars

\* getAlarm has reported 23:30 enabled: the alarm was set to 23:30 while it
\* was 6:30 and disabled
C11_Witness ==
  /\ commands = 2
  /\ response = send(200, "application/json",
                     <<"hour", "23", "minute", "30", "isSet", "true">>)

\* C12: setAlarm with hour outside 0..23 or minute outside 0..59 answers
\* 400 and leaves alarmState (alarm time, enabled flag, trajectories,
\* committed brightness), the store and the output unchanged.
C12_InvalidSetAlarmRejected ==
  [][\A a \in ConfigAlarmArgs :
       (~ValidTime(a) /\ handleSetAlarm(a[1], a[2])) =>
         /\ response' = InvalidTimeResponse
         /\ UNCHANGED <<alarmState, preferences, ledc>>]_vars

\* a setAlarm was rejected while the alarm was set to 23:30
C12_Witness ==
  /\ response = InvalidTimeResponse
  /\ alarmState.isAlarmSet
  /\ alarmState.hour = 23
  /\ preferences = saveAlarmToStorage(alarmState)

ValidBrightness(b) == b[1] \in 0..PWM_MAX /\ b[2] \in 0..PWM_MAX
InvalidBrightnessResponse ==
  send(400, "text/plain", <<"Invalid brightness values (must be 0-1023)">>)

\* C13: setBrightness with warm or cool outside 0..1023 answers 400 and
\* changes nothing: no fade is started, a running sunrise and an armed
\* auto-off stay as they are, committed brightness and output are unchanged.
C13_InvalidSetBrightnessRejected ==
  [][\A b \in BrightnessArgs :
       (~ValidBrightness(b) /\ handleSetBrightness(b[1], b[2])) =>
         /\ response' = InvalidBrightnessResponse
         /\ UNCHANGED <<alarmState, preferences, ledc>>]_vars

\* a setBrightness was rejected while a sunrise was running
C13_Witness ==
  /\ response = InvalidBrightnessResponse
  /\ alarmState.isSunriseActive
  /\ ~alarmState.isManualFadeActive

ValidAutoOff(o) == o[2] \in 1..1440
InvalidAutoOffResponse ==
  send(400, "text/plain", <<"Invalid minutes value (must be 1-1440)">>)

\* C14: setAutoOff with minutes outside 1..1440 answers 400 and leaves
\* alarmState (autoOffEnabled, autoOffMinutes, an armed auto-off) and the
\* store unchanged; with minutes in 1..1440 it sets autoOffEnabled and
\* autoOffMinutes to the arguments and writes the configuration to the store.
C14_SetAutoOffValidates ==
  [][\A o \in AutoOffArgs :
       handleSetAutoOff(o[1], o[2]) =>
         IF ValidAutoOff(o)
         THEN /\ alarmState' = [alarmState EXCEPT !.autoOffEnabled = o[1],
                                                  !.autoOffMinutes = o[2]]
              /\ preferences' = saveAlarmToStorage(alarmState')
              /\ preferences'["autooff_enabled"] = o[1]
              /\ preferences'["autooff_mins"] = o[2]
         ELSE /\ response' = InvalidAutoOffResponse
              /\ UNCHANGED <<alarmState, preferences, ledc>>]_vars

\* a setAutoOff was rejected while the auto-off was armed
C14_Witness ==
  /\ response = InvalidAutoOffResponse
  /\ alarmState.autoOffScheduled

\* committed brightness and written duty of w are PWM levels
LevelsInRange(w) ==
  /\ w.alarmState.currentWarmBrightness \in 0..PWM_MAX
  /\ w.alarmState.currentCoolBrightness \in 0..PWM_MAX
  /\ w.ledc.warm \in 0..PWM_MAX
  /\ w.ledc.cool \in 0..PWM_MAX

\* C15: in every reachable state both committed channels are in 0..1023
\* and so is every duty written: the last one, and the ones the next pass
\* of loop() writes in updateManualFade, updateSunrise and updateAutoOff.
C15_BrightnessInRange ==
  LET w0 == [alarmState |-> alarmState, ledc |-> ledc]
      w1 == updateManualFade(w0, millisNow)
      w2 == updateSunrise(w1, millisNow, wallClock)
      w3 == updateAutoOff(w2, millisNow)
  IN  LevelsInRange(w0) /\ LevelsInRange(w1) /\ LevelsInRange(w2) /\ LevelsInRange(w3)

\* a fade to (800, 400) has completed: the duty written is the gamma 2.2
\* value of the committed level
C15_Witness ==
  /\ Committed(alarmState) = <<800, 400>>
  /\ ledc.warm = GammaTable[800]
  /\ ledc.warm \in 1..799

\* C16: toggleAlarm(false) clears isAlarmSet and isSunriseActive and
\* nothing else in alarmState, so the committed brightness stays, and writes
\* the configuration to the store; toggleAlarm(true) sets isAlarmSet and
\* nothing else, and writes the store; neither writes the output.
C16_ToggleAlarm ==
  [][/\ handleToggleAlarm(FALSE) =>
          /\ alarmState' = [alarmState EXCEPT !.isAlarmSet = FALSE,
                                              !.isSunriseActive = FALSE]
          /\ Committed(alarmState') = Committed(alarmState)
          /\ preferences' = saveAlarmToStorage(alarmState')
          /\ preferences'["alarm_set"] = FALSE
          /\ ledc' = ledc
     /\ handleToggleAlarm(TRUE) =>
          /\ alarmState' = [alarmState EXCEPT !.isAlarmSet = TRUE]
          /\ preferences' = saveAlarmToStorage(alarmState')
          /\ preferences'["alarm_set"] = TRUE
          /\ ledc' = ledc]_vars

\* toggleAlarm(false) has stopped the sunrise of the 6:30 alarm one minute
\* in, at the sample (68, 27)
C16_Witness ==
  /\ commands = 2
  /\ response = send(200, "application/json",
                     <<"isAlarmSet", "false", "alarmTime", "6", ":", "", "30">>)
  /\ ~alarmState.isSunriseActive
  /\ ~alarmState.isManualFadeActive
  /\ Committed(alarmState) = <<68, 27>>
  /\ preferences["alarm_set"] = FALSE

\* position of a key in a JSON body, and the value that follows it
KeyAt(body, key) == CHOOSE i \in 1..Len(body) : body[i] = key
Field(body, key) == body[KeyAt(body, key) + 1]

\* the device state a GET handler must not touch
DeviceUnchanged == UNCHANGED <<alarmState, preferences, ledc, millisNow, wallClock>>

\* C17: status, get-alarm and get-auto-off change no field of alarmState,
\* neither the store nor the output, and answer 200 with the alarm time,
\* isAlarmSet, isSunriseActive, the committed brightness and the auto-off
\* configuration of the current alarmState.
C17_ReadsArePure ==
  [][/\ handleGetAlarm =>
          /\ DeviceUnchanged
          /\ response'.code = 200
          /\ Field(response'.body, "hour") = String(alarmState.hour)
          /\ Field(response'.body, "minute") = String(alarmState.minute)
          /\ Field(response'.body, "isSet") = BoolText(alarmState.isAlarmSet)
     /\ handleGetAutoOff =>
          /\ DeviceUnchanged
          /\ response'.code = 200
          /\ Field(response'.body, "autoOffEnabled") = BoolText(alarmState.autoOffEnabled)
          /\ Field(response'.body, "autoOffMinutes") = String(alarmState.autoOffMinutes)
     /\ handleStatus =>
          /\ DeviceUnchanged
          /\ response'.code = 200
          /\ LET at == KeyAt(response'.body, "alarmTime")
             IN  SubSeq(response'.body, at + 1, at + 4) = AlarmTimeText(alarmState)
          /\ Field(response'.body, "isAlarmSet") = BoolText(alarmState.isAlarmSet)
          /\ Field(response'.body, "isSunriseActive") = BoolText(alarmState.isSunriseActive)
          /\ Field(response'.body, "warmBrightness") = String(alarmState.currentWarmBrightness)
          /\ Field(response'.body, "coolBrightness") = String(alarmState.currentCoolBrightness)]_vars

\* status has reported the running sunrise of the 6:30 alarm at (68, 27)
C17_Witness ==
  /\ response.code = 200
  /\ Len(response.body) > 0
  /\ Head(response.body) = "currentTime"
  /\ alarmState.isSunriseActive
  /\ Field(response.body, "isSunriseActive") = "true"
  /\ Field(response.body, "warmBrightness") = "68"
  /\ Field(response.body, "coolBrightness") = "27"

\* C18: a restart restores the alarm hour, minute and enabled flag and the
\* auto-off enabled flag and minutes that were in effect before it; with an
\* empty store the configuration loaded is 6:30 disabled, auto-off enabled
\* at 45 minutes.
C18_SettingsSurviveRestart ==
  [][restart =>
       /\ Config(alarmState') = Config(alarmState)
       /\ preferences = EmptyStore =>
            Config(alarmState') = <<6, 30, FALSE, TRUE, DEFAULT_AUTO_OFF_MINUTES>>]_vars

\* the device has restarted after setAlarm(23, 30), toggleAlarm(false) and
\* setAutoOff(false, 1): millis() is back at its boot value
C18_Witness ==
  /\ ticks >= 2
  /\ commands = 3
  /\ millisNow \in BootMillis
  /\ response = NoResponse
  /\ Config(alarmState) = <<23, 30, FALSE, FALSE, 1>>

\* this pass of loop() starts a sunrise (startSunrise is the only place
\* that sets isSunriseActive)
SunriseStarted ==
  /\ TickStep
  /\ ~alarmState.isSunriseActive
  /\ alarmState'.isSunriseActive

\* a sunrise was started since the current wall-clock minute began
StartedEarlierThisMinute ==
  /\ alarmState.sunriseStartTime # U32(0)
  /\ ~Ge32(SunriseElapsed, MINUTE_MS)
  /\ ToInt(SunriseElapsed) <= wallClock % MINUTE_MS

\* C19: within one wall-clock minute the alarm check starts a sunrise at
\* most once, also when the sunrise it started was cancelled by a command
\* before the minute was over.
C19_TriggerOncePerMinute ==
  [][SunriseStarted => ~StartedEarlierThisMinute]_vars

\* the duty pair setBrightness writes for a committed pair under a gamma
Duty(committed, gamma) ==
  [warm |-> applyGamma(committed[1], gamma), cool |-> applyGamma(committed[2], gamma)]

\* C20: in every pass of loop() the sample or completion value that
\* updateManualFade writes for a manual or auto-off fade goes out with
\* gamma 2.2, and the sample or completion value that updateSunrise writes
\* for a sunrise goes out with gamma 1.0.
C20_GammaByKind ==
  [][TickStep =>
       LET w0 == [alarmState |-> alarmState, ledc |-> ledc]
           w1 == updateManualFade(w0, millisNow)
           w2 == updateSunrise(w1, millisNow, wallClock)
       IN  /\ alarmState.isManualFadeActive =>
                w1.ledc = Duty(Committed(w1.alarmState), DEFAULT_GAMMA)
           /\ w1.alarmState.isSunriseActive =>
                w2.ledc = Duty(Committed(w2.alarmState), SUNRISE_GAMMA)]_vars

\* what the three configuration commands answer when they are accepted
SetAlarmOk(a) ==
  send(200, "text/plain",
       <<"Alarm set to ", String(a[1]), ":", ZeroPad(a[2]), String(a[2])>>)
ToggleAlarmOk(enabled) ==
  send(200, "application/json",
       <<"isAlarmSet", BoolText(enabled), "alarmTime">> \o AlarmTimeText(alarmState))
SetAutoOffOk(o) ==
  send(200, "application/json",
       <<"autoOffEnabled", BoolText(o[1]), "autoOffMinutes", String(o[2])>>)

\* the failed write shows in what the device puts out: the answer differs
\* from the answer of the same command with a working store, or the line
\* saveAlarmToStorage() prints differs from the one it prints after a write
\* that went through
WarningSurfaced(ok) ==
  \/ response' # ok
  \/ saveAlarmSerial(nvsWritable) # saveAlarmSerial(TRUE)

\* C21: when the store rejects the write of an accepted setAlarm,
\* toggleAlarm or setAutoOff, alarmState keeps the new values, the command
\* answers 200, and the failure shows as a warning in what the device puts
\* out.
C21_WriteFailureSurfaced ==
  [][~nvsWritable =>
       /\ \A a \in AlarmArgs :
            (ValidTime(a) /\ handleSetAlarm(a[1], a[2])) =>
              /\ alarmState' = [alarmState EXCEPT !.hour = a[1], !.minute = a[2],
                                                  !.isAlarmSet = TRUE]
              /\ response'.code = 200
              /\ WarningSurfaced(SetAlarmOk(a))
       /\ \A enabled \in BOOLEAN :
            handleToggleAlarm(enabled) =>
              /\ alarmState'.isAlarmSet = enabled
              /\ response'.code = 200
              /\ WarningSurfaced(ToggleAlarmOk(enabled))
       /\ \A o \in AutoOffArgs :
            (ValidAutoOff(o) /\ handleSetAutoOff(o[1], o[2])) =>
              /\ alarmState'.autoOffEnabled = o[1]
              /\ alarmState'.autoOffMinutes = o[2]
              /\ response'.code = 200
              /\ WarningSurfaced(SetAutoOffOk(o))]_vars

\* the parameters of a manual fade and nothing else of alarmState
FadeParams(s) ==
  [manualFadeDuration |-> s.manualFadeDuration,
   manualStartWarm |-> s.manualStartWarm, manualStartCool |-> s.manualStartCool,
   manualTargetWarm |-> s.manualTargetWarm, manualTargetCool |-> s.manualTargetCool]

\* the pair a manual fade with parameters p has at the elapsed time e
FadeAt(p, e) ==
  IF p.manualFadeDuration = 0 \/ Ge32(e, p.manualFadeDuration)
  THEN <<p.manualTargetWarm, p.manualTargetCool>>
  ELSE LET b == manualFadeSample(p, ToInt(e)) IN <<b.warm, b.cool>>

\* the pair a sunrise has at the elapsed time e
SunriseAt(e) ==
  IF Ge32(e, SUNRISE_DURATION_MS)
  THEN <<PWM_MAX, SUNRISE_COOL_TARGET>>
  ELSE LET b == sunriseSample([kind |-> "sunrise"], ToInt(e)) IN <<b.warm, b.cool>>

\* C22: whatever the spacing of the passes of loop(), the brightness a pass
\* commits for a manual fade is a function of the time elapsed since its
\* start and of its duration, start and target only, the brightness it
\* commits for a sunrise a function of the time elapsed since its start only;
\* at or past the duration they are the targets.
C22_ProgressIsTimeBased ==
  [][TickStep =>
       LET w0 == [alarmState |-> alarmState, ledc |-> ledc]
           w1 == updateManualFade(w0, millisNow)
       IN  /\ alarmState.isManualFadeActive =>
                Committed(w1.alarmState) = FadeAt(FadeParams(alarmState), ManualElapsed)
           /\ (alarmState.isManualFadeActive /\ ~alarmState.isSunriseActive) =>
                Committed(alarmState') = FadeAt(FadeParams(alarmState), ManualElapsed)
           /\ alarmState.isSunriseActive =>
                Committed(alarmState') = SunriseAt(SunriseElapsed)]_vars

\* a pass held up for a minute: the second pass after the alarm was set has
\* committed the value of the ramp at 60000 ms
C22_Witness ==
  /\ ticks = 2
  /\ commands = 1
  /\ alarmState.isSunriseActive
  /\ Committed(alarmState) = SunriseAt(U32(MINUTE_MS))
  /\ Committed(alarmState) # <<0, 0>>

\* the start of a fade to (1023, 1023) has been written in full and no
\* sunrise is left running
ManualOnWritten ==
  /\ ~alarmState.isSunriseActive
  /\ alarmState.isManualFadeActive
  /\ alarmState.manualFadeStartTime = millisNow
  /\ alarmState.manualFadeDuration = MANUAL_FADE_MS
  /\ ManualStart(alarmState) = Committed(alarmState)
  /\ ManualTarget(alarmState) = <<PWM_MAX, PWM_MAX>>

\* what the updates of a pass and status may see
ObservedWhole ==
  /\ pc \in {"handleClient", "update"}
  /\ alarmState.isManualFadeActive => alarmState.manualFadeDuration = MANUAL_FADE_MS
  /\ response = send(200, "text/plain", <<"Lights fading on">>) => ManualOnWritten

\* C23: with handleManualOn() taken one assignment at a time, the updates
\* of a pass of loop() and the status handler run only when no handler is
\* under way, and the fade they see after manualOn has all its fields
\* written: flags, start time, duration, start and target.
C23_HandlersRunToCompletion ==
  [][(TickStep \/ handleStatus) => ObservedWhole]_vars

\* a pass of loop() has run right after a manualOn that replaced a running
\* sunrise, and has sampled the fade at its start
C23_Witness ==
  /\ pc = "handleClient"
  /\ commands = 2
  /\ alarmState.isManualFadeActive
  /\ ~alarmState.isSunriseActive
  /\ alarmState.sunriseStartTime # U32(0)
  /\ ManualTarget(alarmState) = <<PWM_MAX, PWM_MAX>>
  /\ Sub32(millisNow, alarmState.manualFadeStartTime) = U32(MINUTE_MS)


\* C24: applyGamma returns 0 for every input <= 0 and 1023 for every input
\* >= 1023 whatever the exponent, and a value in 0 .. 1023 for the inputs between
C24_GammaBoundaries ==
  call.f = "applyGamma" =>
    /\ call.v <= 0 => call.result = 0
    /\ call.v >= PWM_MAX => call.result = PWM_MAX
    /\ call.result \in 0 .. PWM_MAX

\* an input past the top of the range, with an exponent the program never passes
C24_Witness ==
  /\ call.f = "applyGamma"
  /\ call.v = PWM_MAX + 2
  /\ call.gamma = 5
  /\ call.result = PWM_MAX

\* the exact quotients floor(1023 * e / D) and floor(409 * e / D)
ExactRamp(e) ==
  <<(PWM_MAX * e) \div SUNRISE_DURATION_MS,
    (SUNRISE_COOL_TARGET * e) \div SUNRISE_DURATION_MS>>

\* the pass of updateSunrise this step makes does not lower a channel below
\* what the pass before it committed, and ends the ramp at exactly (1023, 409)
RampShape ==
  /\ call.f = "updateSunrise" => call'.warm >= call.warm /\ call'.cool >= call.cool
  /\ call'.elapsedTime >= SUNRISE_DURATION_MS =>
        call'.warm = PWM_MAX /\ call'.cool = SUNRISE_COOL_TARGET

\* C25 as stated: at every elapsed time below D the committed pair is exactly
\* (floor(1023 * e / D), floor(409 * e / D)); non-decreasing, (1023, 409) from D on
C25_ExactLinearRamp ==
  [][call'.f = "updateSunrise" =>
       /\ RampShape
       /\ call'.elapsedTime < SUNRISE_DURATION_MS =>
             <<call'.warm, call'.cool>> = ExactRamp(call'.elapsedTime)]_vars

\* C25 amended: at every elapsed time below D each channel is the exact floor
\* or one level above it (the float product rounded up to a whole number);
\* the ramp is (0, 0) at 0, non-decreasing, and exactly (1023, 409) from D on
C25_FloatLinearRamp ==
  [][call'.f = "updateSunrise" =>
       /\ RampShape
       /\ call'.elapsedTime = 0 => call'.warm = 0 /\ call'.cool = 0
       /\ call'.elapsedTime < SUNRISE_DURATION_MS =>
             LET exact == ExactRamp(call'.elapsedTime)
             IN  /\ call'.warm \in {exact[1], exact[1] + 1}
                 /\ call'.cool \in {exact[2], exact[2] + 1}
                 /\ call'.warm < PWM_MAX
                 /\ call'.elapsedTime \notin RampRoundedUp =>
                       <<call'.warm, call'.cool>> = exact]_vars

\* a pass whose float product was rounded up: 1023 * 157478 / 900000 is just
\* below 179, and 179 is committed while the sunrise goes on
C25_Witness ==
  /\ call.f = "updateSunrise"
  /\ call.elapsedTime = 157478
  /\ call.warm = ExactRamp(157478)[1] + 1
  /\ call.warm = 179
  /\ call.isSunriseActive

\* x lies between a and b, both included, whichever of the two is larger
Between(a, x, b) == (a <= x /\ x <= b) \/ (b <= x /\ x <= a)

\* C26: a fade commits its start pair at elapsed 0 and its target pair at
\* elapsed = duration; every sample lies between start and target, and from
\* one pass to the next each channel moves toward the target or stays
C26_FadeEndpointsAndMonotone ==
  [][call'.f = "updateManualFade" =>
       LET start == call'.p[1]
           target == call'.p[2]
           sample == <<call'.warm, call'.cool>>
       IN  /\ call'.elapsed = 0 => sample = start
           /\ call'.elapsed >= MANUAL_FADE_MS => sample = target
           /\ \A i \in 1 .. 2 : Between(start[i], sample[i], target[i])
           /\ call.f = "updateManualFade" =>
                 /\ Between(call.warm, sample[1], target[1])
                 /\ Between(call.cool, sample[2], target[2])]_vars

\* halfway through the auto-off fade from the end of a sunrise: both
\* channels strictly between start and target
C26_Witness ==
  /\ call.f = "updateManualFade"
  /\ call.p = <<<<PWM_MAX, SUNRISE_COOL_TARGET>>, <<0, 0>>>>
  /\ call.elapsed = MANUAL_FADE_MS \div 2
  /\ call.warm \in 1 .. PWM_MAX - 1
  /\ call.cool \in 1 .. SUNRISE_COOL_TARGET - 1
  /\ call.isManualFadeActive

\* the steps of a pass in the order of the source: the fade advance, then
\* the alarm check or, for a sunrise under way, its advance, then the auto-off
\* check; each advance writes the output itself
FadeAdvanceFirst(w, now, wall) ==
  LET w1 == updateManualFade(w, now)
      w2 == IF w1.alarmState.isSunriseActive
            THEN sunriseAdvance(w1, now)
            ELSE alarmCheck(w1, now, wall)
  IN  updateAutoOff(w2, now)

\* the steps of a pass with the alarm check ahead of the fade advance; a
\* sunrise the check has just started is advanced from the next pass on
AlarmCheckFirst(w, now, wall) ==
  LET w1 == IF w.alarmState.isSunriseActive THEN w ELSE alarmCheck(w, now, wall)
      w2 == updateManualFade(w1, now)
      w3 == IF w.alarmState.isSunriseActive THEN sunriseAdvance(w2, now) ELSE w2
  IN  updateAutoOff(w3, now)

\* C27 as stated: every pass leaves the state and the output that the order
\* alarm check, trajectory advance, auto-off check leaves
C27_AlarmCheckFirst ==
  [][TickStep =>
       [alarmState |-> alarmState', ledc |-> ledc']
         = AlarmCheckFirst([alarmState |-> alarmState, ledc |-> ledc],
                           millisNow, wallClock)]_vars

\* C27 amended: every pass runs between two handlers and leaves the state
\* and the output of the order fade advance, alarm check or sunrise advance,
\* auto-off check; the alarm check reads isSunriseActive as it was when the
\* pass began, and the pass that starts a sunrise leaves the brightness and
\* the duty that the fade advance of that pass wrote
C27_FadeAdvanceFirst ==
  [][TickStep =>
       LET w0 == [alarmState |-> alarmState, ledc |-> ledc]
           w1 == updateManualFade(w0, millisNow)
       IN  /\ pc \in {"handleClient", "update"}
           /\ pc' = "handleClient"
           /\ [alarmState |-> alarmState', ledc |-> ledc']
                = FadeAdvanceFirst(w0, millisNow, wallClock)
           /\ w1.alarmState.isSunriseActive = alarmState.isSunriseActive
           /\ (~alarmState.isSunriseActive /\ alarmState'.isSunriseActive) =>
                 /\ Committed(alarmState') = Committed(w1.alarmState)
                 /\ ledc' = w1.ledc
                 /\ alarmState'.sunriseStartTime = millisNow]_vars

\* the pass before this state advanced a fade that was under way, wrote its
\* sample with gamma 2.2, and then started the sunrise
C27_Witness ==
  /\ alarmState.isSunriseActive
  /\ alarmState.isManualFadeActive
  /\ millisNow = Add32(alarmState.sunriseStartTime, LOOP_DELAY_MS)
  /\ alarmState.currentWarmBrightness > 0
  /\ ledc = Duty(Committed(alarmState), DEFAULT_GAMMA)
  /\ ledc # Duty(Committed(alarmState), SUNRISE_GAMMA)

\* the alarm part and the auto-off part of the configuration
AlarmConfig(s) == <<s.hour, s.minute, s.isAlarmSet>>
AutoOffConfig(s) == <<s.autoOffEnabled, s.autoOffMinutes>>

\* the configuration a store holds: what loadAlarmFromStorage reads from it
Persisted(prefs) == loadAlarmFromStorage(StructDefaults, prefs)

\* this step is a handler call that counts as a command
CommandStep == commands' = commands + 1

\* this step leaves the written duty and every field of the state outside
\* the configuration as they were
ConfigFrame ==
  /\ ledc' = ledc
  /\ alarmState' = [alarmState EXCEPT
                      !.hour = alarmState'.hour,
                      !.minute = alarmState'.minute,
                      !.isAlarmSet = alarmState'.isAlarmSet,
                      !.autoOffEnabled = alarmState'.autoOffEnabled,
                      !.autoOffMinutes = alarmState'.autoOffMinutes]

\* C28: the alarm time and flag and their stored copies change only in
\* setAlarm and toggleAlarm, the auto-off setting and its stored copy only in
\* setAutoOff; a pass of loop(), manualOn, manualOff and setBrightness leave
\* all five and the store as they were; setAlarm and setAutoOff leave every
\* other field of the state and the written duty as they were
C28_ConfigChangedByOwnCommands ==
  [][/\ (\/ AlarmConfig(alarmState') # AlarmConfig(alarmState)
         \/ /\ preferences' # preferences
            /\ AlarmConfig(Persisted(preferences')) # AlarmConfig(Persisted(preferences)))
          => /\ \/ \E a \in AlarmArgs : handleSetAlarm(a[1], a[2])
                \/ \E enabled \in BOOLEAN : handleToggleAlarm(enabled)
             /\ AutoOffConfig(alarmState') = AutoOffConfig(alarmState)
     /\ (\/ AutoOffConfig(alarmState') # AutoOffConfig(alarmState)
         \/ /\ preferences' # preferences
            /\ AutoOffConfig(Persisted(preferences')) # AutoOffConfig(Persisted(preferences)))
          => /\ \E o \in AutoOffArgs : handleSetAutoOff(o[1], o[2])
             /\ AlarmConfig(alarmState') = AlarmConfig(alarmState)
     /\ (Config(alarmState') # Config(alarmState) \/ preferences' # preferences)
          => /\ ~TickStep
             /\ ~handleManualOn
             /\ ~handleManualOff
             /\ \A b \in BrightnessArgs : ~handleSetBrightness(b[1], b[2])
     /\ (CommandStep /\ ~ConfigFrame)
          => /\ \A a \in AlarmArgs : ~handleSetAlarm(a[1], a[2])
             /\ \A o \in AutoOffArgs : ~handleSetAutoOff(o[1], o[2])]_vars

\* a sunrise has completed and armed the auto-off, the alarm it came from is
\* still set for 6:30 in the state and in the store, and a setAutoOff has
\* since changed the dwell and left the arming and the brightness alone
C28_Witness ==
  /\ response = send(200, "application/json",
                     <<"autoOffEnabled", "true", "autoOffMinutes", "1">>)
  /\ alarmState.autoOffScheduled
  /\ Committed(alarmState) = <<PWM_MAX, SUNRISE_COOL_TARGET>>
  /\ AlarmConfig(alarmState) = <<6, 30, TRUE>>
  /\ Config(Persisted(preferences)) = Config(alarmState)

\* C29: whenever a sunrise is under way no auto-off is armed, so the
\* auto-off fade cannot start during a sunrise
C29_NoArmingDuringSunrise ==
  alarmState.isSunriseActive => ~alarmState.autoOffScheduled

\* the time of a reading of millis() relative to the wraparound, in ms:
\* negative before the counter wraps, its value after
SinceWrap(a) == IF a[1] >= Limb \div 2 THEN (a[1] - Limb) * Limb + a[2] ELSE ToInt(a)

\* the time that has really gone by between the reading start and now
RealElapsed(start) == SinceWrap(millisNow) - SinceWrap(start)

\* C30: with millis() wrapping around during a fade, a sunrise or a dwell,
\* a pass of loop() completes the fade or the sunrise, or fires the auto-off,
\* exactly when the time that has really gone by has reached the duration,
\* and before that samples the trajectory at the time really gone by
C30_ElapsedAcrossWraparound ==
  [][TickStep =>
       LET w0 == [alarmState |-> alarmState, ledc |-> ledc]
           w1 == updateManualFade(w0, millisNow)
           w2 == updateSunrise(w1, millisNow, wallClock)
           w3 == updateAutoOff(w2, millisNow)
           fade == RealElapsed(alarmState.manualFadeStartTime)
           ramp == RealElapsed(alarmState.sunriseStartTime)
           dwell == RealElapsed(w2.alarmState.sunriseCompleteTime)
       IN  /\ alarmState.isManualFadeActive =>
                 /\ w1.alarmState.isManualFadeActive <=> fade < MANUAL_FADE_MS
                 /\ Committed(w1.alarmState) =
                      IF fade >= MANUAL_FADE_MS THEN ManualTarget(alarmState)
                      ELSE LET b == manualFadeSample(alarmState, fade)
                           IN  <<b.warm, b.cool>>
           /\ alarmState.isSunriseActive =>
                 /\ w2.alarmState.isSunriseActive <=> ramp < SUNRISE_DURATION_MS
                 /\ Committed(w2.alarmState) =
                      IF ramp >= SUNRISE_DURATION_MS THEN <<PWM_MAX, SUNRISE_COOL_TARGET>>
                      ELSE LET b == sunriseSample(alarmState, ramp)
                           IN  <<b.warm, b.cool>>
           /\ w2.alarmState.autoOffScheduled =>
                 /\ dwell >= 0
                 /\ w3.alarmState.autoOffScheduled
                      <=> dwell < w2.alarmState.autoOffMinutes * MINUTE_MS
           /\ alarmState' = w3.alarmState]_vars

\* the counter has wrapped since the sunrise completed, and the auto-off
\* armed then has fired after a dwell of a day and started its fade
C30_Witness ==
  /\ SinceWrap(alarmState.sunriseCompleteTime) < 0
  /\ SinceWrap(millisNow) > 0
  /\ alarmState.autoOffMinutes = 1440
  /\ ~alarmState.autoOffScheduled
  /\ alarmState.isManualFadeActive
  /\ ManualTarget(alarmState) = <<0, 0>>
  /\ ManualStart(alarmState) = <<PWM_MAX, SUNRISE_COOL_TARGET>>

\* hour, minute and dwell of s are values the handlers accept
ConfigInRange(s) ==
  /\ s.hour \in 0 .. 23
  /\ s.minute \in 0 .. 59
  /\ s.autoOffMinutes \in 1 .. 1440

\* C31: from setup() on an empty store, and after every restart on a store
\* the handlers wrote, the alarm hour is in 0 .. 23, the minute in 0 .. 59 and
\* the dwell in 1 .. 1440, in alarmState and as read from the store; an active
\* manual fade has its start and target levels in 0 .. 1023 and lasts 350 ms
C31_ConfigInRange ==
  /\ ConfigInRange(alarmState)
  /\ ConfigInRange(Persisted(preferences))
  /\ alarmState.isManualFadeActive =>
        /\ \A i \in 1 .. 2 : /\ ManualStart(alarmState)[i] \in 0 .. PWM_MAX
                             /\ ManualTarget(alarmState)[i] \in 0 .. PWM_MAX
        /\ alarmState.manualFadeDuration = MANUAL_FADE_MS

\* the device was restarted after a pass, on a store that holds an alarm at
\* 6:46, and a setBrightness has since started a fade
C31_Witness ==
  /\ ticks > 0
  /\ millisNow \in BootMillis
  /\ Persisted(preferences).minute = 46
  /\ alarmState.minute = 46
  /\ alarmState.isManualFadeActive
  /\ ManualTarget(alarmState) = <<800, 400>>
  /\ alarmState.manualFadeDuration = MANUAL_FADE_MS

\* a fade is under way, the command before the last pass was not followed
\* by another, and the passes the fade takes are among those followed
FadeUnderWay ==
  /\ alarmState.isManualFadeActive
  /\ response = NoResponse
  /\ ticks + FadePasses <= MaxPasses

\* C32: with loop() called again and again, a manual fade that is under way
\* ends unless another command arrives; the pass that ends it with no sunrise
\* running commits its target, and the passes after it, with no sunrise
\* started and no auto-off fade begun, leave brightness and duty at rest
C32_FadeTerminates ==
  /\ FadeUnderWay ~> (~alarmState.isManualFadeActive \/ response # NoResponse)
  /\ [][TickStep =>
          /\ (/\ alarmState.isManualFadeActive /\ ~alarmState'.isManualFadeActive
              /\ ~alarmState.isSunriseActive /\ ~alarmState'.isSunriseActive)
               => /\ Committed(alarmState') = ManualTarget(alarmState)
                  /\ ledc' = Duty(ManualTarget(alarmState), DEFAULT_GAMMA)
          /\ (/\ ~alarmState.isManualFadeActive /\ ~alarmState'.isManualFadeActive
              /\ ~alarmState.isSunriseActive /\ ~alarmState'.isSunriseActive)
               => /\ Committed(alarmState') = Committed(alarmState)
                  /\ ledc' = ledc]_vars

\* a setBrightness fade has ended at its target and the device has been at
\* rest there for a pass
C32_Witness ==
  /\ commands = 1
  /\ ticks = FadePasses + 1
  /\ ~alarmState.isManualFadeActive
  /\ ~alarmState.isSunriseActive
  /\ ManualTarget(alarmState) = <<800, 400>>
  /\ Committed(alarmState) = <<800, 400>>
  /\ Sub32(millisNow, alarmState.manualFadeStartTime) = U32(FadePasses * LOOP_DELAY_MS)


(************************ the 8-bit variant: sunrise ************************)
Levels8 == 0 .. PWM_MAX8
OnSent8 == send(200, "text/plain", <<"Lights turned on">>)
OffSent8 == send(200, "text/plain", <<"Lights turned off">>)

\* a sunrise was started and is switched off before its time is up: only
\* handleManualOn and handleManualOff do that
Cancelled8 ==
  /\ ~alarmState.isSunriseActive
  /\ alarmState.sunriseStartTime # U32(0)
  /\ ~Ge32(SunriseElapsed, SUNRISE_DURATION_MS)

\* the committed pair and the two duties after setBrightness(warm, cool)
Shows8(s, l, warm, cool) ==
  /\ Committed(s) = <<warm, cool>>
  /\ l = [warm |-> warm, cool |-> cool]

\* a pass with a sunrise running ends it at SUNRISE_DURATION_MS with (255, 0)
\* and not before
SunriseRuns8 ==
  (TickStep /\ alarmState.isSunriseActive)
    => IF Ge32(SunriseElapsed, SUNRISE_DURATION_MS)
       THEN ~alarmState'.isSunriseActive /\ Shows8(alarmState', ledc', PWM_MAX8, 0)
       ELSE alarmState'.isSunriseActive

\* manual-on and manual-off switch the sunrise off and set the output at once
ManualSets8 ==
  /\ response' = OnSent8
       => ~alarmState'.isSunriseActive /\ Shows8(alarmState', ledc', PWM_MAX8, PWM_MAX8)
  /\ response' = OffSent8
       => ~alarmState'.isSunriseActive /\ Shows8(alarmState', ledc', 0, 0)

\* the rest of the pass that served the command does not switch the
\* cancelled sunrise on again
StaysCancelled8 ==
  (TickStep /\ Cancelled8 /\ response \in {OnSent8, OffSent8})
    => ~alarmState'.isSunriseActive

\* C33: in the 8-bit firmware a sunrise left alone ends at the sunrise duration
\* with (255, 0) and isSunriseActive false; manual on or off during a sunrise
\* cancels it and sets (255, 255) or (0, 0) at once; the committed levels are
\* always within 0 .. 255
C33_SimpleSunrise ==
  /\ [](/\ alarmState.currentWarmBrightness \in Levels8
        /\ alarmState.currentCoolBrightness \in Levels8)
  /\ [][SunriseRuns8 /\ ManualSets8 /\ StaysCancelled8]_vars
=============================================================================
